---- MODULE Spec2Model ----
(***************************************************************************)
(* Peer transport of sage-client (crates/sage-client/src/peer.rs): the     *)
(* callers of send / request_raw / request_infallible / request_fallible,  *)
(* the mutex-guarded send half, the RequestMap of parked response slots,   *)
(* the inbound demultiplexer task and the bounded unsolicited-event        *)
(* channel.                                                                *)
(* Wallet sync engine of sage-wallet (crates/sage-wallet/src/sync_manager/ *)
(* wallet_sync.rs): sync_wallet, sync_coin_ids, sync_puzzle_hashes and     *)
(* incremental_sync against the wallet database, one peer, the shared      *)
(* PeerState and the bounded progress-event channel.                       *)
(* WalletConnect endpoint of sage (crates/sage/src/endpoints/              *)
(* wallet_connect.rs): filter_unlocked_coins against the lock state of the *)
(* wallet database.                                                        *)
(***************************************************************************)
EXTENDS Integers, Sequences, FiniteSets, TLC

\* ------------------------------------------------------------------ bounds
NumClients == 2        \* tasks that each own one clone of the Peer handle
MaxCalls == 2          \* calls of send/request_* made over one run
NumIds == 2            \* size of the (scaled down) id space of the RequestMap
MaxFrames == 2         \* frames the transport hands to the inbound task
MaxEventFrames == 34   \* the same, in the run that fills the event channel

MaxHeight == 2         \* block heights (and header hashes) the peer reports
MaxPages == 2          \* unfinished pages the peer sends for one chunk
MaxCoinResponses == 2  \* responses of one run that carry coin states
MaxSyncCalls == 2      \* sync_wallet / incremental_sync calls made in a row
SyncCapacity == 2      \* capacity of the progress-event channel

MaxCoinIds == 3        \* coin ids in one FilterUnlockedCoins request

\* mpsc::channel(32), peer.rs:107
EventCapacity == 32

\* chunks(500), start_index + 500, max_index + 500: wallet_sync.rs:55,75,258
BatchSize == 500
\* coin_ids.chunks(10000), wallet_sync.rs:143
CoinIdChunk == 10000

Clients == 1 .. NumClients
Ids == 0 .. (NumIds - 1)
Calls == 1 .. MaxCalls
\* msg_type opcodes (ChiaProtocolMessage::msg_type)
Kinds == 1 .. 3
NoId == -1

VARIABLES
    pc,          \* per caller: position in send / request_raw
    call,        \* per caller: the call in progress (api, T, E, serial, id)
    result,      \* per caller: what the last call returned
    mailbox,     \* per caller: value sitting in the oneshot receiver of the call
    requests,    \* RequestMap: the live slots, each [id, req]
    calls,       \* number of calls started so far
    sinkOwner,   \* holder of PeerInner.sink's mutex, 0 when free
    wire,        \* frame pieces written to the send half, in order
    task,        \* inbound task: running / blocked / closed / ended / failed / aborted
    taskError,   \* the ClientError the inbound task failed with
    pending,     \* message held by the inbound task while sender.send awaits capacity
    peerAlive,   \* PeerInner not yet dropped (some handle exists)
    events,      \* buffer of the unsolicited-event channel
    eventsOpen,  \* the mpsc::Receiver returned by from_websocket is alive
    lastEvent,   \* the message the consumer received last
    frames,      \* frames taken from the stream so far (numbers the messages)
    lastFrame,   \* the frame taken last: its type and, for a Message, id and kind
    parked,      \* the calls whose waiters were parked when the inbound task ended
    senderUses,  \* per call serial: how often request.send consumed its sender,
                 \* and whether the value found its receiver gone
    db,          \* wallet database: derivations, coin rows, puzzle rows, peak
    tx,          \* the open database transaction (its view of the rows), or NoTx
    spc,         \* position of the sync task in sync_wallet / incremental_sync
    sw,          \* locals of sync_wallet
    sp,          \* locals of sync_coin_ids / sync_puzzle_hashes
    isf,         \* locals of incremental_sync
    sres,        \* what the last sync_wallet / incremental_sync call returned
    progress,    \* the SyncEvent channel behind sync_sender: buffer and receiver
    peerState,   \* PeerState's peak recorded for this peer, or NoPeak
    syncLog,     \* history of the running call: requests, phases, events, peaks
    locked,      \* wallet database: the coins that are locked
    fu           \* filter_unlocked_coins: its request, locals, lookups and result

vars == << pc, call, result, mailbox, requests, calls, sinkOwner, wire, task,
           taskError, pending, peerAlive, events, eventsOpen, lastEvent,
           frames, lastFrame, parked, senderUses >>

clientVars == << pc, call, result, mailbox, calls, sinkOwner, wire >>
taskVars == << task, taskError, pending, frames, lastFrame, parked >>
eventVars == << events, eventsOpen, lastEvent >>
syncVars == << db, tx, spc, sw, sp, isf, sres, progress, peerState, syncLog >>
filterVars == << locked, fu >>

\* ---------------------------------------------------------------- values
NoMsg == [kind |-> 0, id |-> NoId, dec |-> FALSE, no |-> 0]
NoCall == [api |-> "none", T |-> 0, E |-> 0, req |-> 0, id |-> NoId]
NoError == [tag |-> "none", kind |-> 0]
NoFrame == [type |-> "none", id |-> NoId, kind |-> 0]
Frame(type, id, kind) == [type |-> type, id |-> id, kind |-> kind]

\* Result<_, ClientError> of a call, flattened into one record shape
Res(tag, m, exp) == [tag |-> tag, msg |-> m, exp |-> exp]
NoResult == Res("none", NoMsg, << >>)

\* the future of a call exists (and with it the oneshot receiver of a request)
InFlight == {"locking", "flushing", "awaiting"}
TaskLive == {"running", "blocked"}

\* Arc<RequestMap> is held by PeerInner.requests and by the inbound task
\* (requests_clone); the map is dropped when both are gone
MapDropped == ~peerAlive /\ task \notin TaskLive
MapAfter(reqs, alive, ts) == IF ~alive /\ ts \notin TaskLive THEN {} ELSE reqs

LiveIds == {s.id : s \in requests}

\* ------------------------------------------------------------- RequestMap
\* an insert that does not look at the live slots
InsertIdsAny(reqs) == Ids

\* insert(sink) -> id: selects an id that is not currently live
InsertIds(reqs) == Ids \ {s.id : s \in reqs}

\* remove(id) -> optional sink: the slot stored under id, if any
RemoveSlots(reqs, id) == {s \in reqs : s.id = id}

\* ------------------------------------------------------- typed responses
\* request_infallible<T>: the checks made on the Message request_raw returned
RequestInfallible(T, m) ==
    IF m.kind # T THEN Res("InvalidResponse", m, << T >>)
    ELSE IF m.dec THEN Res("Ok", m, << >>)
    ELSE Res("Streamable", m, << >>)

\* a request_fallible that takes every expected kind for the success kind
RequestFallibleAnyOk(T, E, m) ==
    IF m.kind # T /\ m.kind # E THEN Res("InvalidResponse", m, << T, E >>)
    ELSE IF m.dec THEN Res("OkOk", m, << >>) ELSE Res("Streamable", m, << >>)

\* request_fallible<T, E>
RequestFallible(T, E, m) ==
    IF m.kind # T /\ m.kind # E THEN Res("InvalidResponse", m, << T, E >>)
    ELSE IF m.kind = T
         THEN (IF m.dec THEN Res("OkOk", m, << >>) ELSE Res("Streamable", m, << >>))
         ELSE (IF m.dec THEN Res("OkErr", m, << >>) ELSE Res("Streamable", m, << >>))

Typed(cl, m) ==
    CASE cl.api = "infallible" -> RequestInfallible(cl.T, m)
      [] cl.api = "fallible" -> RequestFallible(cl.T, cl.E, m)
      [] OTHER -> Res("Ok", m, << >>)

\* ------------------------------------------------------------ the callers
\* Peer::send up to its first suspension: encode, then wait for the sink
StartSend(c, encOk) ==
    /\ pc[c] = "idle"
    /\ calls < MaxCalls
    /\ calls' = calls + 1
    /\ call' = [call EXCEPT ![c] = [api |-> "send", T |-> 0, E |-> 0,
                                    req |-> calls + 1, id |-> NoId]]
    /\ mailbox' = [mailbox EXCEPT ![c] = NoMsg]
    /\ IF encOk
       THEN /\ pc' = [pc EXCEPT ![c] = "locking"]
            /\ result' = [result EXCEPT ![c] = NoResult]
       ELSE /\ pc' = pc
            /\ result' = [result EXCEPT ![c] = Res("Streamable", NoMsg, << >>)]
    /\ UNCHANGED << requests, sinkOwner, wire, senderUses >>
    /\ UNCHANGED << taskVars, eventVars, peerAlive >>
    /\ UNCHANGED << syncVars, filterVars >>

\* a request that takes an id but never parks its sender under it
StartRequestNoSlot(c, api, T, E, encOk) ==
    /\ pc[c] = "idle"
    /\ calls < MaxCalls
    /\ calls' = calls + 1
    /\ \E id \in InsertIds(requests) :
         /\ requests' = requests
         /\ call' = [call EXCEPT ![c] = [api |-> api, T |-> T, E |-> E,
                                         req |-> calls + 1, id |-> id]]
    /\ mailbox' = [mailbox EXCEPT ![c] = NoMsg]
    /\ IF encOk
       THEN /\ pc' = [pc EXCEPT ![c] = "locking"]
            /\ result' = [result EXCEPT ![c] = NoResult]
       ELSE /\ pc' = pc
            /\ result' = [result EXCEPT ![c] = Res("Streamable", NoMsg, << >>)]
    /\ UNCHANGED << sinkOwner, wire, senderUses >>
    /\ UNCHANGED << taskVars, eventVars, peerAlive >>
    /\ UNCHANGED << syncVars, filterVars >>

\* Peer::request_raw up to its first suspension on the sink: create the
\* oneshot channel, park the sender in the RequestMap, encode the body
StartRequest(c, api, T, E, encOk) ==
    /\ pc[c] = "idle"
    /\ calls < MaxCalls
    /\ calls' = calls + 1
    /\ \E id \in InsertIds(requests) :
         /\ requests' = requests \cup {[id |-> id, req |-> calls + 1]}
         /\ call' = [call EXCEPT ![c] = [api |-> api, T |-> T, E |-> E,
                                         req |-> calls + 1, id |-> id]]
    /\ mailbox' = [mailbox EXCEPT ![c] = NoMsg]
    /\ IF encOk
       THEN /\ pc' = [pc EXCEPT ![c] = "locking"]
            /\ result' = [result EXCEPT ![c] = NoResult]
       ELSE /\ pc' = pc
            /\ result' = [result EXCEPT ![c] = Res("Streamable", NoMsg, << >>)]
    /\ UNCHANGED << sinkOwner, wire, senderUses >>
    /\ UNCHANGED << taskVars, eventVars, peerAlive >>
    /\ UNCHANGED << syncVars, filterVars >>

\* a writer that does not wait for the mutex
AcquireSinkUnlocked(c, ok) ==
    /\ pc[c] = "locking"
    /\ IF ok
       THEN /\ sinkOwner' = c
            /\ pc' = [pc EXCEPT ![c] = "flushing"]
            /\ wire' = Append(wire, [req |-> call[c].req, id |-> call[c].id,
                                     part |-> "head"])
            /\ UNCHANGED << result, mailbox >>
       ELSE /\ sinkOwner' = sinkOwner
            /\ pc' = [pc EXCEPT ![c] = "idle"]
            /\ wire' = wire
            /\ result' = [result EXCEPT ![c] = Res("Transport", NoMsg, << >>)]
            /\ mailbox' = [mailbox EXCEPT ![c] = NoMsg]
    /\ UNCHANGED << call, calls, requests, senderUses >>
    /\ UNCHANGED << taskVars, eventVars, peerAlive >>
    /\ UNCHANGED << syncVars, filterVars >>

\* a failed write that takes the slot of the request out of the map
AcquireSinkCleansUp(c, ok) ==
    /\ pc[c] = "locking"
    /\ sinkOwner = 0
    /\ IF ok
       THEN /\ sinkOwner' = c
            /\ pc' = [pc EXCEPT ![c] = "flushing"]
            /\ wire' = Append(wire, [req |-> call[c].req, id |-> call[c].id,
                                     part |-> "head"])
            /\ UNCHANGED << result, mailbox, requests >>
       ELSE /\ sinkOwner' = 0
            /\ pc' = [pc EXCEPT ![c] = "idle"]
            /\ wire' = wire
            /\ result' = [result EXCEPT ![c] = Res("Transport", NoMsg, << >>)]
            /\ mailbox' = [mailbox EXCEPT ![c] = NoMsg]
            /\ requests' = {s \in requests : s.req # call[c].req}
    /\ UNCHANGED << call, calls, senderUses >>
    /\ UNCHANGED << taskVars, eventVars, peerAlive >>
    /\ UNCHANGED << syncVars, filterVars >>

\* self.0.sink.lock().await succeeds and SinkExt::send starts writing the
\* frame; a transport that is already broken fails the call here
AcquireSink(c, ok) ==
    /\ pc[c] = "locking"
    /\ sinkOwner = 0
    /\ IF ok
       THEN /\ sinkOwner' = c
            /\ pc' = [pc EXCEPT ![c] = "flushing"]
            /\ wire' = Append(wire, [req |-> call[c].req, id |-> call[c].id,
                                     part |-> "head"])
            /\ UNCHANGED << result, mailbox >>
       ELSE /\ sinkOwner' = 0
            /\ pc' = [pc EXCEPT ![c] = "idle"]
            /\ wire' = wire
            /\ result' = [result EXCEPT ![c] = Res("Transport", NoMsg, << >>)]
            /\ mailbox' = [mailbox EXCEPT ![c] = NoMsg]
    /\ UNCHANGED << call, calls, requests, senderUses >>
    /\ UNCHANGED << taskVars, eventVars, peerAlive >>
    /\ UNCHANGED << syncVars, filterVars >>

\* the rest of the frame goes out, the MutexGuard is dropped; send returns,
\* request_raw goes on to await the receiver
FlushSink(c) ==
    /\ pc[c] = "flushing"
    /\ sinkOwner = c
    /\ sinkOwner' = 0
    /\ wire' = Append(wire, [req |-> call[c].req, id |-> call[c].id,
                             part |-> "tail"])
    /\ IF call[c].api = "send"
       THEN /\ pc' = [pc EXCEPT ![c] = "idle"]
            /\ result' = [result EXCEPT ![c] = Res("Sent", NoMsg, << >>)]
       ELSE /\ pc' = [pc EXCEPT ![c] = "awaiting"]
            /\ result' = result
    /\ UNCHANGED << call, calls, mailbox, requests, senderUses >>
    /\ UNCHANGED << taskVars, eventVars, peerAlive >>
    /\ UNCHANGED << syncVars, filterVars >>

\* receiver.await? resolves: with the Message the inbound task sent, or with
\* RecvError (PeerDropped) once the sender was dropped without a send
AwaitResponse(c) ==
    /\ pc[c] = "awaiting"
    /\ \/ mailbox[c] # NoMsg
       \/ \A s \in requests : s.req # call[c].req
    /\ pc' = [pc EXCEPT ![c] = "idle"]
    /\ result' = [result EXCEPT ![c] =
                    IF mailbox[c] # NoMsg THEN Typed(call[c], mailbox[c])
                    ELSE Res("PeerDropped", NoMsg, << >>)]
    /\ mailbox' = [mailbox EXCEPT ![c] = NoMsg]
    /\ UNCHANGED << call, calls, requests, sinkOwner, wire, senderUses >>
    /\ UNCHANGED << taskVars, eventVars, peerAlive >>
    /\ UNCHANGED << syncVars, filterVars >>

\* the future of the call is dropped at one of its await points (a timeout
\* wrapper expired, the owning task was cancelled): the receiver and a held
\* MutexGuard go with it; a frame already handed to the sink still goes out
DropFuture(c) ==
    /\ pc[c] \in InFlight
    /\ pc' = [pc EXCEPT ![c] = "idle"]
    /\ result' = [result EXCEPT ![c] = Res("Cancelled", NoMsg, << >>)]
    /\ mailbox' = [mailbox EXCEPT ![c] = NoMsg]
    /\ IF pc[c] = "flushing"
       THEN /\ sinkOwner' = 0
            /\ wire' = Append(wire, [req |-> call[c].req, id |-> call[c].id,
                                     part |-> "tail"])
       ELSE UNCHANGED << sinkOwner, wire >>
    /\ UNCHANGED << call, calls, requests, senderUses >>
    /\ UNCHANGED << taskVars, eventVars, peerAlive >>
    /\ UNCHANGED << syncVars, filterVars >>

\* a caller drops its clone of the Peer; the last one drops PeerInner, whose
\* Drop aborts the inbound task, and PeerInner's Arc<RequestMap> goes. The
\* futures of send and request_raw borrow the handle (&self), so a handle can
\* only go while its owner has no call in flight
DropHandle(c) ==
    /\ pc[c] = "idle"
    /\ pc' = [pc EXCEPT ![c] = "gone"]
    /\ peerAlive' = (\E d \in Clients \ {c} : pc[d] # "gone")
    /\ requests' = MapAfter(requests, peerAlive', task)
    /\ UNCHANGED << call, result, mailbox, calls, sinkOwner, wire, senderUses >>
    /\ UNCHANGED << taskVars, eventVars >>
    /\ UNCHANGED << syncVars, filterVars >>

\* ------------------------------------------------------- the inbound task
\* a task that nobody aborts keeps reading after the Peer is gone
TakeFrameAfterDrop(limit, f) ==
    /\ task = "running"
    /\ frames < limit
    /\ frames' = frames + 1
    /\ lastFrame' = f

\* stream.next().await hands over one more frame
TakeFrame(limit, f) ==
    /\ task = "running"
    /\ peerAlive
    /\ frames < limit
    /\ frames' = frames + 1
    /\ lastFrame' = f

\* handle_inbound_messages returns (or fails): the task's stream, event sender
\* and Arc<RequestMap> are dropped
TaskEnds(ts, err, reqs) ==
    /\ task' = ts
    /\ taskError' = err
    /\ parked' = {call[c].req : c \in {d \in Clients : pc[d] = "awaiting"
                                                      /\ mailbox[d] = NoMsg}}
    /\ requests' = MapAfter(reqs, peerAlive, ts)

\* Text, Ping, Pong, Frame: logged or ignored
RecvIgnored(limit, f) ==
    /\ f \in {"Text", "Ping", "Pong", "Frame"}
    /\ TakeFrame(limit, Frame(f, NoId, 0))
    /\ UNCHANGED << task, taskError, pending, parked, requests, senderUses >>
    /\ UNCHANGED << clientVars, eventVars, peerAlive >>
    /\ UNCHANGED << syncVars, filterVars >>

\* Close(close) => break, then Ok(())
RecvClose(limit) ==
    /\ TakeFrame(limit, Frame("Close", NoId, 0))
    /\ TaskEnds("closed", NoError, requests)
    /\ UNCHANGED << pending, senderUses >>
    /\ UNCHANGED << clientVars, eventVars, peerAlive >>
    /\ UNCHANGED << syncVars, filterVars >>

\* stream.next() yields None: the while-let ends, Ok(())
RecvEnd(limit) ==
    /\ TakeFrame(limit, Frame("None", NoId, 0))
    /\ TaskEnds("ended", NoError, requests)
    /\ UNCHANGED << pending, senderUses >>
    /\ UNCHANGED << clientVars, eventVars, peerAlive >>
    /\ UNCHANGED << syncVars, filterVars >>

\* message? on a transport error
RecvError(limit) ==
    /\ TakeFrame(limit, Frame("Err", NoId, 0))
    /\ TaskEnds("failed", [tag |-> "Transport", kind |-> 0], requests)
    /\ UNCHANGED << pending, senderUses >>
    /\ UNCHANGED << clientVars, eventVars, peerAlive >>
    /\ UNCHANGED << syncVars, filterVars >>

\* Message::from_bytes(&binary)? on bytes that are no Message
RecvMalformed(limit) ==
    /\ TakeFrame(limit, Frame("Malformed", NoId, 0))
    /\ TaskEnds("failed", [tag |-> "Streamable", kind |-> 0], requests)
    /\ UNCHANGED << pending, senderUses >>
    /\ UNCHANGED << clientVars, eventVars, peerAlive >>
    /\ UNCHANGED << syncVars, filterVars >>

\* try_send in place of send: a full channel fails the task
EventSendTry(m) ==
    IF ~eventsOpen \/ Len(events) >= EventCapacity
    THEN /\ TaskEnds("failed", [tag |-> "EventNotSent", kind |-> 0], requests)
         /\ UNCHANGED << events, pending >>
    ELSE /\ events' = Append(events, m)
         /\ task' = "running"
         /\ pending' = NoMsg
         /\ UNCHANGED << taskError, parked, requests >>

\* a channel that hands the newest message out first
EventSendLifo(m) ==
    IF ~eventsOpen
    THEN /\ TaskEnds("failed", [tag |-> "EventNotSent", kind |-> 0], requests)
         /\ UNCHANGED << events, pending >>
    ELSE IF Len(events) < EventCapacity
    THEN /\ events' = << m >> \o events
         /\ task' = "running"
         /\ pending' = NoMsg
         /\ UNCHANGED << taskError, parked, requests >>
    ELSE /\ task' = "blocked"
         /\ pending' = m
         /\ UNCHANGED << events, taskError, parked, requests >>

\* mpsc::Sender::send(message).await as far as it gets at once: Err on a
\* closed channel, the message queued when there is room, else it waits
EventSend(m) ==
    IF ~eventsOpen
    THEN /\ TaskEnds("failed", [tag |-> "EventNotSent", kind |-> 0], requests)
         /\ UNCHANGED << events, pending >>
    ELSE IF Len(events) < EventCapacity
    THEN /\ events' = Append(events, m)
         /\ task' = "running"
         /\ pending' = NoMsg
         /\ UNCHANGED << taskError, parked, requests >>
    ELSE /\ task' = "blocked"
         /\ pending' = m
         /\ UNCHANGED << events, taskError, parked, requests >>

\* Binary frame whose Message has no id: forwarded to the event channel
RecvEvent(limit, kind, dec) ==
    /\ TakeFrame(limit, Frame("Binary", NoId, kind))
    /\ EventSend([kind |-> kind, id |-> NoId, dec |-> dec, no |-> frames + 1])
    /\ UNCHANGED << eventsOpen, lastEvent, senderUses >>
    /\ UNCHANGED << clientVars, peerAlive >>
    /\ UNCHANGED << syncVars, filterVars >>

\* the suspended sender.send(message).await is polled again
EventSendResume ==
    /\ task = "blocked"
    /\ peerAlive
    /\ ~eventsOpen \/ Len(events) < EventCapacity
    /\ EventSend(pending)
    /\ UNCHANGED << frames, lastFrame, eventsOpen, lastEvent, senderUses >>
    /\ UNCHANGED << clientVars, peerAlive >>
    /\ UNCHANGED << syncVars, filterVars >>

\* a send that wakes every waiter, not the one that parked the sender
DeliverAll(mb, slot, m) ==
    [c \in Clients |-> IF pc[c] \in InFlight THEN m ELSE mb[c]]

\* the futures holding the oneshot receiver that belongs to a slot's sender
Receivers(slot) == {c \in Clients : call[c].req = slot.req /\ pc[c] \in InFlight}

\* request.send(message): the value reaches the receiver of the call that
\* parked the sender if that future still exists, else it is discarded
Deliver(mb, slot, m) ==
    [c \in Clients |-> IF c \in Receivers(slot) THEN m ELSE mb[c]]

\* an untracked id that is logged and skipped
UntrackedSkipped(kind) ==
    UNCHANGED << task, taskError, parked, requests, mailbox, senderUses >>

\* requests.remove(id) found nothing: warn, Err(UnexpectedMessage(msg_type))
Untracked(kind) ==
    /\ TaskEnds("failed", [tag |-> "UnexpectedMessage", kind |-> kind], requests)
    /\ UNCHANGED << mailbox, senderUses >>

\* a send whose failure (receiver gone) is taken for an error of the task
SendToSlotStrict(slot, m) ==
    IF Receivers(slot) = {}
    THEN /\ TaskEnds("failed", [tag |-> "EventNotSent", kind |-> 0],
                     requests \ {slot})
         /\ UNCHANGED << mailbox, senderUses >>
    ELSE /\ requests' = requests \ {slot}
         /\ mailbox' = Deliver(mailbox, slot, m)
         /\ senderUses' = [senderUses EXCEPT ![slot.req] =
                              [n |-> @.n + 1, lost |-> @.lost]]
         /\ UNCHANGED << task, taskError, parked >>

\* requests.remove(id) returned the slot: it is out of the map, its sender is
\* consumed by request.send(message), whose outcome is not looked at
SendToSlot(slot, m) ==
    /\ requests' = requests \ {slot}
    /\ mailbox' = Deliver(mailbox, slot, m)
    /\ senderUses' = [senderUses EXCEPT ![slot.req] =
                         [n |-> @.n + 1,
                          lost |-> @.lost \/ Receivers(slot) = {}]]
    /\ UNCHANGED << task, taskError, parked >>

\* Binary frame whose Message carries an id: requests.remove(id), then either
\* UnexpectedMessage or request.send(message)
RecvResponse(limit, id, kind, dec) ==
    /\ TakeFrame(limit, Frame("Binary", id, kind))
    /\ LET m == [kind |-> kind, id |-> id, dec |-> dec, no |-> frames + 1]
           found == RemoveSlots(requests, id)
       IN IF found = {}
          THEN Untracked(kind)
          ELSE \E slot \in found : SendToSlot(slot, m)
    /\ UNCHANGED << pc, call, result, calls, sinkOwner, wire, pending >>
    /\ UNCHANGED << eventVars, peerAlive >>
    /\ UNCHANGED << syncVars, filterVars >>

\* inbound_handle.abort() takes effect: the task is dropped where it waits
TaskAbort ==
    /\ ~peerAlive
    /\ task \in TaskLive
    /\ TaskEnds("aborted", NoError, requests)
    /\ pending' = NoMsg
    /\ UNCHANGED << frames, lastFrame, senderUses >>
    /\ UNCHANGED << clientVars, eventVars, peerAlive >>
    /\ UNCHANGED << syncVars, filterVars >>

\* --------------------------------------- the consumer of unsolicited events
\* receiver.recv().await yields the oldest queued message
ConsumeEvent ==
    /\ eventsOpen
    /\ events # << >>
    /\ lastEvent' = Head(events)
    /\ events' = Tail(events)
    /\ UNCHANGED << eventsOpen, requests, senderUses, peerAlive >>
    /\ UNCHANGED << clientVars, taskVars >>
    /\ UNCHANGED << syncVars, filterVars >>

\* the mpsc::Receiver is dropped: the channel closes, queued messages go
CloseEvents ==
    /\ eventsOpen
    /\ eventsOpen' = FALSE
    /\ events' = << >>
    /\ UNCHANGED << lastEvent, requests, senderUses, peerAlive >>
    /\ UNCHANGED << clientVars, taskVars >>
    /\ UNCHANGED << syncVars, filterVars >>

\* ------------------------------------------------- wallet sync: the values
\* Option<u32>::None of start_height, and wallet.genesis_challenge
NoHeight == -1
GenesisChallenge == 0
Heights == 1 .. MaxHeight
Hashes == 1 .. MaxHeight
\* (height, header_hash) pairs: peaks and pagination cursors
Peaks == [height : Heights, hash : Hashes]
NoPeak == [height |-> NoHeight, hash |-> NoHeight]
Genesis == [height |-> NoHeight, hash |-> GenesisChallenge]

\* CoinState as far as sync uses it: the coin, the unhardened derivation
\* its puzzle hash belongs to, and whether spent_height is set
CoinA == [coin |-> 1, index |-> 37, spent |-> FALSE]
CoinASpent == [coin |-> 1, index |-> 37, spent |-> TRUE]
CoinB == [coin |-> 2, index |-> 537, spent |-> TRUE]
\* the non-empty coin_states vectors a response or a caller brings
CoinStateLists == {<< CoinA >>, << CoinASpent >>, << CoinA, CoinB >>}

NoTx == [open |-> FALSE]
NoBatch == << 0, 0 >>
NoData == [coin_states |-> << >>, height |-> NoHeight, hash |-> NoHeight,
           is_finished |-> FALSE]
NoSw == [p2 |-> 0, start |-> Genesis, coin_ids |-> 0, chunk |-> 0,
         derive_more |-> FALSE, start_index |-> 0, batch |-> NoBatch]
NoSp == [caller |-> "none", batch |-> NoBatch, prev |-> Genesis,
         found_coins |-> FALSE, data |-> NoData]
NoIsf == [caller |-> "none", coin_states |-> << >>, i |-> 0, derive |-> FALSE,
          next_index |-> 0, max_index |-> 0, derived |-> FALSE,
          before |-> [open |-> FALSE]]
NoSres == [call |-> "none", status |-> "none", n |-> 0]
\* history of the running call: the committed rows it started from, the
\* furthest phase it reached, the coin-id requests made, the calls of
\* sync_puzzle_hashes made for known chunks, the requests of the
\* current sync_puzzle_hashes call with its unfinished pages and the cursor
\* of its last response, whether a page since the last test of derive_more
\* brought coin states, whether derive_more was tested, the events the
\* channel took, the sends made and whether one found it closed, and the
\* call that failed
NoLog == [before |-> [open |-> FALSE], phase |-> 0, coinReqs |-> 0,
          knownCalls |-> 0, reqs |-> 0,
          unfinished |-> 0, lastResp |-> Genesis, finished |-> FALSE,
          roundFound |-> FALSE, tests |-> 0, sent |-> {}, sends |-> 0,
          unsent |-> 0,
          coinResponses |-> 0, failed |-> "none",
          commits |-> 0]

CoinsUpdated(coin_states) == [type |-> "CoinsUpdated", arg |-> coin_states]
DerivationIndex(next_index) == [type |-> "DerivationIndex", arg |-> next_index]

\* ----------------------------------------------- wallet sync: the database
\* derivation rows of one hardened-ness are kept as the set of index ranges
\* [lo, hi) they cover, maximal and pairwise apart
Touching(ranges, lo, hi) == {r \in ranges : r[1] <= hi /\ lo <= r[2]}
MinOf(S) == CHOOSE x \in S : \A y \in S : x <= y
MaxOf(S) == CHOOSE x \in S : \A y \in S : y <= x

\* INSERT of the rows lo .. hi - 1; a row already present stays as it is
InsertRange(ranges, lo, hi) ==
    IF lo >= hi THEN ranges
    ELSE LET t == Touching(ranges, lo, hi)
             a == MinOf({lo} \cup {r[1] : r \in t})
             b == MaxOf({hi} \cup {r[2] : r \in t})
         IN  (ranges \ t) \cup {<< a, b >>}

HasDerivation(view, index, hardened) ==
    \E r \in view.derivations[hardened] : r[1] <= index /\ index < r[2]

RECURSIVE RangeSum(_)
RangeSum(ranges) ==
    IF ranges = {} THEN 0
    ELSE LET r == CHOOSE x \in ranges : TRUE
         IN  (r[2] - r[1]) + RangeSum(ranges \ {r})

\* wallet.db.p2_puzzle_hashes().len(): one hash per row of the derivations
DerivationCount(view) ==
    RangeSum(view.derivations[FALSE]) + RangeSum(view.derivations[TRUE])

\* tx.derivation_index(hardened): the index after the highest one persisted
DerivationIndexOf(view, hardened) ==
    IF view.derivations[hardened] = {} THEN 0
    ELSE MaxOf({r[2] : r \in view.derivations[hardened]})

\* tx.max_used_derivation_index(hardened).map_or(0, |index| index + 1): one
\* past the highest derivation whose puzzle hash some coin row pays to
MaxUsedPlusOne(view, hardened) ==
    LET used == {c.index : c \in {x \in view.coins :
                                    HasDerivation(view, x.index, hardened)}}
    IN  IF used = {} THEN 0 ELSE MaxOf(used) + 1

\* upsert_coin: the row of this coin is replaced by the new state
UpsertCoin(view, cs) ==
    [view EXCEPT !.coins = {c \in view.coins : c.coin # cs.coin} \cup {cs}]

\* delete_puzzle(coin_id)
DeletePuzzle(view, coin) == [view EXCEPT !.puzzles = view.puzzles \ {coin}]

\* wallet.db.tx(): the transaction sees the committed rows
Begin(d) == [open |-> TRUE, derivations |-> d.derivations,
             coins |-> d.coins, puzzles |-> d.puzzles]

\* tx.commit(): the rows of the transaction become the committed rows
Commit(d, t) == [d EXCEPT !.derivations = t.derivations, !.coins = t.coins,
                          !.puzzles = t.puzzles]

\* wallet.db.insert_peak(height, header_hash): the resume point
InsertPeak(d, peak) == [d EXCEPT !.peak = peak]

\* ------------------------------------------- wallet sync: progress events
\* sync_sender.send(event).await.ok(): the event is queued when the channel
\* has room, the error is discarded when the receiver is gone, and the send
\* waits while the channel is full
CanSend == ~progress.open \/ Len(progress.buf) < SyncCapacity
SendProgress(event) ==
    progress' = IF progress.open
                THEN [progress EXCEPT !.buf = Append(progress.buf, event)]
                ELSE progress
\* the history after that send
LogSend(log, event) ==
    IF progress.open
    THEN [log EXCEPT !.sent = log.sent \cup {event}, !.sends = @ + 1]
    ELSE [log EXCEPT !.unsent = 1, !.sends = @ + 1]

\* the committed rows and the events sent so far, as incremental_sync finds
\* them when it is called
Entry == [db |-> db, sends |-> syncLog.sends]

\* the `?` of a failed call: the error goes up through every caller, the
\* open transaction is dropped with its rows
SyncError(why) ==
    /\ sres' = [sres EXCEPT !.status = "Err"]
    /\ spc' = "idle"
    /\ tx' = NoTx
    /\ syncLog' = [syncLog EXCEPT !.failed = why]

\* ------------------------------------------------ wallet sync: sync_wallet
\* sync_wallet up to the call of sync_coin_ids: the reads of lines 31-41
SyncWalletStart(ok) ==
    /\ spc = "idle"
    /\ sres.n < MaxSyncCalls
    /\ sres' = [call |-> "sync_wallet", n |-> sres.n + 1,
                status |-> IF ok THEN "running" ELSE "Err"]
    /\ syncLog' = [NoLog EXCEPT !.before = db,
                                !.failed = IF ok THEN "none" ELSE "read"]
    /\ IF ok
       THEN /\ sw' = [NoSw EXCEPT !.p2 = DerivationCount(db),
                                  !.start = IF db.peak = NoPeak THEN Genesis
                                            ELSE db.peak,
                                  !.coin_ids = db.assets]
            /\ spc' = "coin_ids"
       ELSE /\ sw' = NoSw
            /\ spc' = "idle"
    /\ sp' = NoSp
    /\ isf' = NoIsf
    /\ UNCHANGED << db, tx, progress, peerState >>
    /\ UNCHANGED << vars, filterVars >>

\* a loop over the chunks that ends after its first chunk
CoinIdsNextOnce ==
    /\ spc = "coin_ids"
    /\ IF sw.chunk = 0 /\ sw.chunk * CoinIdChunk < sw.coin_ids
       THEN /\ spc' = "coins_wait"
            /\ sw' = sw
            /\ syncLog' = [syncLog EXCEPT !.phase = 1, !.coinReqs = @ + 1]
       ELSE /\ spc' = "known"
            /\ sw' = [sw EXCEPT !.derive_more = (sw.p2 = 0), !.chunk = 0]
            /\ syncLog' = syncLog
    /\ UNCHANGED << db, tx, sp, isf, sres, progress, peerState >>
    /\ UNCHANGED << vars, filterVars >>

\* sync_coin_ids, head of the loop over coin_ids.chunks(10000): the next
\* chunk is requested, or the loop over the known puzzle hashes begins
CoinIdsNext ==
    /\ spc = "coin_ids"
    /\ IF sw.chunk * CoinIdChunk < sw.coin_ids
       THEN /\ spc' = "coins_wait"
            /\ sw' = sw
            /\ syncLog' = [syncLog EXCEPT !.phase = 1, !.coinReqs = @ + 1]
       ELSE /\ spc' = "known"
            /\ sw' = [sw EXCEPT !.derive_more = (sw.p2 = 0), !.chunk = 0]
            /\ syncLog' = syncLog
    /\ UNCHANGED << db, tx, sp, isf, sres, progress, peerState >>
    /\ UNCHANGED << vars, filterVars >>

\* a response that is handed to incremental_sync even when it is empty
CoinsResponseAlwaysSync(ok, coin_states) ==
    /\ spc = "coins_wait"
    /\ IF ~ok
       THEN /\ SyncError("subscription")
            /\ UNCHANGED << sw, isf >>
       ELSE /\ UNCHANGED << sres, tx >>
            /\ syncLog.coinResponses < MaxCoinResponses
            /\ syncLog' = [syncLog EXCEPT !.coinResponses = @ + 1]
            /\ isf' = [NoIsf EXCEPT !.caller = "coin_ids",
                                    !.coin_states = coin_states,
                                    !.derive = TRUE, !.before = Entry]
            /\ spc' = "is_begin"
            /\ sw' = sw
    /\ UNCHANGED << db, sp, progress, peerState >>
    /\ UNCHANGED << vars, filterVars >>

\* timeout(10 s, peer.subscribe_coins(..)).await?? and what follows it
CoinsResponse(ok, coin_states) ==
    /\ spc = "coins_wait"
    /\ IF ~ok
       THEN /\ SyncError("subscription")
            /\ UNCHANGED << sw, isf >>
       ELSE /\ UNCHANGED << sres, tx >>
            /\ IF coin_states # << >>
               THEN /\ syncLog.coinResponses < MaxCoinResponses
                    /\ syncLog' = [syncLog EXCEPT !.coinResponses = @ + 1]
                    /\ isf' = [NoIsf EXCEPT !.caller = "coin_ids",
                                            !.coin_states = coin_states,
                                            !.derive = TRUE, !.before = Entry]
                    /\ spc' = "is_begin"
                    /\ sw' = sw
               ELSE /\ syncLog' = syncLog
                    /\ isf' = isf
                    /\ spc' = "coin_ids"
                    /\ sw' = [sw EXCEPT !.chunk = @ + 1]
    /\ UNCHANGED << db, sp, progress, peerState >>
    /\ UNCHANGED << vars, filterVars >>

\* a frontier that starts one index after the last known puzzle hash
KnownNextOffByOne ==
    /\ spc = "known"
    /\ IF sw.chunk * BatchSize < sw.p2
       THEN /\ sp' = [NoSp EXCEPT
                        !.caller = "known",
                        !.batch = << sw.chunk * BatchSize,
                                     IF (sw.chunk + 1) * BatchSize < sw.p2
                                     THEN (sw.chunk + 1) * BatchSize ELSE sw.p2 >>,
                        !.prev = sw.start]
            /\ spc' = "ph_request"
            /\ sw' = sw
            /\ syncLog' = [syncLog EXCEPT !.knownCalls = @ + 1,
                                          !.reqs = 0, !.unfinished = 0,
                                          !.lastResp = Genesis,
                                          !.finished = FALSE]
       ELSE /\ sp' = sp
            /\ spc' = "frontier"
            /\ sw' = [sw EXCEPT !.start_index = sw.p2 + 1]
            /\ syncLog' = syncLog
    /\ UNCHANGED << db, tx, isf, sres, progress, peerState >>
    /\ UNCHANGED << vars, filterVars >>

\* the loop over p2_puzzle_hashes.chunks(500): sync_puzzle_hashes is called
\* for the next chunk from the persisted anchor, or the frontier loop begins
KnownNext ==
    /\ spc = "known"
    /\ IF sw.chunk * BatchSize < sw.p2
       THEN /\ sp' = [NoSp EXCEPT
                        !.caller = "known",
                        !.batch = << sw.chunk * BatchSize,
                                     IF (sw.chunk + 1) * BatchSize < sw.p2
                                     THEN (sw.chunk + 1) * BatchSize ELSE sw.p2 >>,
                        !.prev = sw.start]
            /\ spc' = "ph_request"
            /\ sw' = sw
            /\ syncLog' = [syncLog EXCEPT !.knownCalls = @ + 1,
                                          !.reqs = 0, !.unfinished = 0,
                                          !.lastResp = Genesis,
                                          !.finished = FALSE]
       ELSE /\ sp' = sp
            /\ spc' = "frontier"
            /\ sw' = [sw EXCEPT !.start_index = sw.p2]
            /\ syncLog' = syncLog
    /\ UNCHANGED << db, tx, isf, sres, progress, peerState >>
    /\ UNCHANGED << vars, filterVars >>

\* --------------------------------------- wallet sync: sync_puzzle_hashes
\* the pages a peer answers a puzzle subscription with
PuzzleData(lists, anchors) ==
    [coin_states : lists \cup {<< >>}, height : {a.height : a \in anchors},
     hash : {a.hash : a \in anchors}, is_finished : BOOLEAN]

\* peer.subscribe_puzzles(puzzle_hashes, prev_height, prev_header_hash, ..)
\* is sent
PuzzleRequest ==
    /\ spc = "ph_request"
    /\ spc' = "ph_wait"
    /\ syncLog' = [syncLog EXCEPT
                     !.reqs = @ + 1,
                     !.phase = IF sp.caller = "known" /\ @ < 2 THEN 2 ELSE @]
    /\ UNCHANGED << db, tx, sw, sp, isf, sres, progress, peerState >>
    /\ UNCHANGED << vars, filterVars >>

\* a failed subscription that is taken for the last, empty page
PuzzleResponseLenient(ok, data) ==
    /\ spc = "ph_wait"
    /\ IF ~ok
       THEN /\ syncLog' = [syncLog EXCEPT !.failed = "subscription",
                                          !.finished = TRUE]
            /\ sp' = [sp EXCEPT !.data = [NoData EXCEPT !.is_finished = TRUE]]
            /\ spc' = "ph_page"
            /\ UNCHANGED << sres, tx, isf >>
       ELSE /\ data.is_finished \/ syncLog.reqs <= MaxPages
            /\ data.coin_states = << >> \/ syncLog.coinResponses < MaxCoinResponses
            /\ syncLog' = [syncLog EXCEPT
                             !.lastResp = [height |-> data.height, hash |-> data.hash],
                             !.finished = data.is_finished,
                             !.unfinished = IF data.is_finished THEN @ ELSE @ + 1,
                             !.roundFound = @ \/ data.coin_states # << >>,
                             !.coinResponses = IF data.coin_states = << >>
                                               THEN @ ELSE @ + 1]
            /\ UNCHANGED << sres, tx >>
            /\ IF data.coin_states # << >>
               THEN /\ sp' = [sp EXCEPT !.data = data, !.found_coins = TRUE]
                    /\ isf' = [NoIsf EXCEPT !.caller = "puzzles",
                                            !.coin_states = data.coin_states,
                                            !.derive = TRUE, !.before = Entry]
                    /\ spc' = "is_begin"
               ELSE /\ sp' = [sp EXCEPT !.data = data]
                    /\ isf' = isf
                    /\ spc' = "ph_page"
    /\ UNCHANGED << db, sw, progress, peerState >>
    /\ UNCHANGED << vars, filterVars >>

\* timeout(45 s, ..).await?? and the use of data.coin_states
PuzzleResponse(ok, data) ==
    /\ spc = "ph_wait"
    /\ IF ~ok
       THEN /\ SyncError("subscription")
            /\ UNCHANGED << sp, isf >>
       ELSE /\ data.is_finished \/ syncLog.reqs <= MaxPages
            /\ data.coin_states = << >> \/ syncLog.coinResponses < MaxCoinResponses
            /\ syncLog' = [syncLog EXCEPT
                             !.lastResp = [height |-> data.height, hash |-> data.hash],
                             !.finished = data.is_finished,
                             !.unfinished = IF data.is_finished THEN @ ELSE @ + 1,
                             !.roundFound = @ \/ data.coin_states # << >>,
                             !.coinResponses = IF data.coin_states = << >>
                                               THEN @ ELSE @ + 1]
            /\ UNCHANGED << sres, tx >>
            /\ IF data.coin_states # << >>
               THEN /\ sp' = [sp EXCEPT !.data = data, !.found_coins = TRUE]
                    /\ isf' = [NoIsf EXCEPT !.caller = "puzzles",
                                            !.coin_states = data.coin_states,
                                            !.derive = TRUE, !.before = Entry]
                    /\ spc' = "is_begin"
               ELSE /\ sp' = [sp EXCEPT !.data = data]
                    /\ isf' = isf
                    /\ spc' = "ph_page"
    /\ UNCHANGED << db, sw, progress, peerState >>
    /\ UNCHANGED << vars, filterVars >>

\* a cursor that keeps the first anchor instead of following the response
PuzzlePageStale ==
    /\ spc = "ph_page"
    /\ IF sp.data.is_finished
       THEN /\ sw' = [sw EXCEPT !.derive_more = @ \/ sp.found_coins,
                                !.chunk = IF sp.caller = "known" THEN @ + 1 ELSE @]
            /\ spc' = IF sp.caller = "known" THEN "known" ELSE "frontier"
       ELSE /\ sw' = sw
            /\ spc' = "ph_request"
    /\ UNCHANGED << sp, db, tx, isf, sres, progress, peerState, syncLog >>
    /\ UNCHANGED << vars, filterVars >>

\* prev_height / prev_header_hash follow the response; is_finished ends the
\* loop and the caller takes found_coins into derive_more
PuzzlePage ==
    /\ spc = "ph_page"
    /\ sp' = [sp EXCEPT !.prev = [height |-> sp.data.height, hash |-> sp.data.hash]]
    /\ IF sp.data.is_finished
       THEN /\ sw' = [sw EXCEPT !.derive_more = @ \/ sp.found_coins,
                                !.chunk = IF sp.caller = "known" THEN @ + 1 ELSE @]
            /\ spc' = IF sp.caller = "known" THEN "known" ELSE "frontier"
       ELSE /\ sw' = sw
            /\ spc' = "ph_request"
    /\ UNCHANGED << db, tx, isf, sres, progress, peerState, syncLog >>
    /\ UNCHANGED << vars, filterVars >>

\* ----------------------------------------- wallet sync: the frontier loop
\* a loop that forgets `start_index += new_derivations.len()`
FrontierHeadNoAdvance(ok) ==
    /\ spc = "frontier"
    /\ IF ~sw.derive_more
       THEN /\ ok
            /\ spc' = "peak"
            /\ syncLog' = [syncLog EXCEPT !.tests = 1]
            /\ UNCHANGED << sw, tx, sres >>
       ELSE IF ok
            THEN /\ sw' = [sw EXCEPT !.derive_more = FALSE,
                                     !.batch = << sw.start_index,
                                                  sw.start_index + BatchSize >>]
                 /\ tx' = Begin(db)
                 /\ spc' = "fr_insert"
                 /\ syncLog' = [syncLog EXCEPT !.tests = 1, !.roundFound = FALSE]
                 /\ sres' = sres
            ELSE /\ SyncError("derive_batch")
                 /\ sw' = sw
    /\ UNCHANGED << db, sp, isf, progress, peerState >>
    /\ UNCHANGED << vars, filterVars >>

\* `while derive_more`: the next 500 keys are derived and a transaction is
\* opened for them, or the loop is over
FrontierHead(ok) ==
    /\ spc = "frontier"
    /\ IF ~sw.derive_more
       THEN /\ ok
            /\ spc' = "peak"
            /\ syncLog' = [syncLog EXCEPT !.tests = 1]
            /\ UNCHANGED << sw, tx, sres >>
       ELSE IF ok
            THEN /\ sw' = [sw EXCEPT !.derive_more = FALSE,
                                     !.batch = << sw.start_index,
                                                  sw.start_index + BatchSize >>,
                                     !.start_index = @ + BatchSize]
                 /\ tx' = Begin(db)
                 /\ spc' = "fr_insert"
                 /\ syncLog' = [syncLog EXCEPT !.tests = 1, !.roundFound = FALSE]
                 /\ sres' = sres
            ELSE /\ SyncError("derive_batch")
                 /\ sw' = sw
    /\ UNCHANGED << db, sp, isf, progress, peerState >>
    /\ UNCHANGED << vars, filterVars >>

\* the loop of tx.insert_derivation(p2_puzzle_hash, index, false, ..) over
\* the batch; one failing insert ends the call and drops the transaction
FrontierInsert(ok) ==
    /\ spc = "fr_insert"
    /\ IF ok
       THEN /\ tx' = [tx EXCEPT !.derivations[FALSE] =
                          InsertRange(@, sw.batch[1], sw.batch[2])]
            /\ spc' = "fr_commit"
            /\ UNCHANGED << sres, syncLog >>
       ELSE SyncError("insert_derivation")
    /\ UNCHANGED << db, sw, sp, isf, progress, peerState >>
    /\ UNCHANGED << vars, filterVars >>

\* tx.commit().await?
FrontierCommit(ok) ==
    /\ spc = "fr_commit"
    /\ IF ok
       THEN /\ db' = Commit(db, tx)
            /\ tx' = NoTx
            /\ spc' = "fr_send"
            /\ syncLog' = [syncLog EXCEPT !.phase = 3, !.commits = 1]
            /\ sres' = sres
       ELSE /\ SyncError("commit_batch")
            /\ db' = db
    /\ UNCHANGED << sw, sp, isf, progress, peerState >>
    /\ UNCHANGED << vars, filterVars >>

\* sync_sender.send(DerivationIndex { next_index: start_index }), then the
\* call of sync_puzzle_hashes for the new batch, anchored at genesis
FrontierSend ==
    /\ spc = "fr_send"
    /\ CanSend
    /\ SendProgress(DerivationIndex(sw.start_index))
    /\ syncLog' = [LogSend(syncLog, DerivationIndex(sw.start_index)) EXCEPT
                     !.reqs = 0, !.unfinished = 0, !.lastResp = Genesis,
                     !.finished = FALSE]
    /\ sp' = [NoSp EXCEPT !.caller = "frontier", !.batch = sw.batch,
                          !.prev = Genesis]
    /\ spc' = "ph_request"
    /\ UNCHANGED << db, tx, sw, isf, sres, peerState >>
    /\ UNCHANGED << vars, filterVars >>

\* a peak that is persisted only when it is above the persisted one
PersistPeakIfHigher(ok) ==
    /\ spc = "peak"
    /\ IF peerState # NoPeak
       THEN IF ok
            THEN /\ db' = IF peerState.height > db.peak.height
                          THEN InsertPeak(db, peerState) ELSE db
                 /\ sres' = [sres EXCEPT !.status = "Ok"]
                 /\ spc' = "idle"
                 /\ syncLog' = [syncLog EXCEPT !.phase = 4]
                 /\ tx' = tx
            ELSE /\ SyncError("insert_peak")
                 /\ db' = db
       ELSE /\ ok
            /\ sres' = [sres EXCEPT !.status = "Ok"]
            /\ spc' = "idle"
            /\ UNCHANGED << db, tx, syncLog >>
    /\ UNCHANGED << sw, sp, isf, progress, peerState >>
    /\ UNCHANGED << vars, filterVars >>

\* state.lock().await.peak_of(ip), insert_peak under that guard, Ok(())
PersistPeak(ok) ==
    /\ spc = "peak"
    /\ IF peerState # NoPeak
       THEN IF ok
            THEN /\ db' = InsertPeak(db, peerState)
                 /\ sres' = [sres EXCEPT !.status = "Ok"]
                 /\ spc' = "idle"
                 /\ syncLog' = [syncLog EXCEPT !.phase = 4]
                 /\ tx' = tx
            ELSE /\ SyncError("insert_peak")
                 /\ db' = db
       ELSE /\ ok
            /\ sres' = [sres EXCEPT !.status = "Ok"]
            /\ spc' = "idle"
            /\ UNCHANGED << db, tx, syncLog >>
    /\ UNCHANGED << sw, sp, isf, progress, peerState >>
    /\ UNCHANGED << vars, filterVars >>

\* -------------------------------------------- wallet sync: incremental_sync
\* a direct call of incremental_sync (the sync manager applying an update)
IncrementalSyncStart(coin_states, derive) ==
    /\ spc = "idle"
    /\ sres.n < MaxSyncCalls
    /\ sres' = [call |-> "incremental_sync", n |-> sres.n + 1, status |-> "running"]
    /\ syncLog' = [NoLog EXCEPT !.before = db]
    /\ isf' = [NoIsf EXCEPT !.caller = "top", !.coin_states = coin_states,
                            !.derive = derive,
                            !.before = [Entry EXCEPT !.sends = 0]]
    /\ spc' = "is_begin"
    /\ sw' = NoSw
    /\ sp' = NoSp
    /\ UNCHANGED << db, tx, progress, peerState >>
    /\ UNCHANGED << vars, filterVars >>

\* wallet.db.tx().await?
IsBegin(ok) ==
    /\ spc = "is_begin"
    /\ IF ok
       THEN /\ tx' = Begin(db)
            /\ isf' = [isf EXCEPT !.i = 1]
            /\ spc' = IF isf.coin_states = << >> THEN "is_index" ELSE "is_upsert"
            /\ UNCHANGED << sres, syncLog >>
       ELSE /\ SyncError("tx")
            /\ isf' = isf
    /\ UNCHANGED << db, sw, sp, progress, peerState >>
    /\ UNCHANGED << vars, filterVars >>

\* where the loop over coin_states goes after the coin at isf.i
AfterCoin == IF isf.i = Len(isf.coin_states) THEN "is_index" ELSE "is_upsert"

\* an upsert that goes to the database outside the transaction
IsUpsertAutocommit(ok) ==
    /\ spc = "is_upsert"
    /\ db' = UpsertCoin(db, isf.coin_states[isf.i])
    /\ IF ok
       THEN /\ tx' = UpsertCoin(tx, isf.coin_states[isf.i])
            /\ IF isf.coin_states[isf.i].spent
               THEN /\ spc' = "is_delete"
                    /\ isf' = isf
               ELSE /\ spc' = AfterCoin
                    /\ isf' = [isf EXCEPT !.i = @ + 1]
            /\ UNCHANGED << sres, syncLog >>
       ELSE /\ SyncError("upsert_coin")
            /\ isf' = isf
    /\ UNCHANGED << sw, sp, progress, peerState >>
    /\ UNCHANGED << vars, filterVars >>

\* upsert_coin(&mut tx, coin_state, None, &mut counters).await?
IsUpsert(ok) ==
    /\ spc = "is_upsert"
    /\ IF ok
       THEN /\ tx' = UpsertCoin(tx, isf.coin_states[isf.i])
            /\ IF isf.coin_states[isf.i].spent
               THEN /\ spc' = "is_delete"
                    /\ isf' = isf
               ELSE /\ spc' = AfterCoin
                    /\ isf' = [isf EXCEPT !.i = @ + 1]
            /\ UNCHANGED << sres, syncLog >>
       ELSE /\ SyncError("upsert_coin")
            /\ isf' = isf
    /\ UNCHANGED << db, sw, sp, progress, peerState >>
    /\ UNCHANGED << vars, filterVars >>

\* a spent coin whose puzzle row is left in place
IsDeleteSkipped(ok) ==
    /\ spc = "is_delete"
    /\ IF ok
       THEN /\ tx' = tx
            /\ spc' = AfterCoin
            /\ isf' = [isf EXCEPT !.i = @ + 1]
            /\ UNCHANGED << sres, syncLog >>
       ELSE /\ SyncError("delete_puzzle")
            /\ isf' = isf
    /\ UNCHANGED << db, sw, sp, progress, peerState >>
    /\ UNCHANGED << vars, filterVars >>

\* delete_puzzle(&mut tx, coin_state.coin.coin_id()).await? of a spent coin
IsDelete(ok) ==
    /\ spc = "is_delete"
    /\ IF ok
       THEN /\ tx' = DeletePuzzle(tx, isf.coin_states[isf.i].coin)
            /\ spc' = AfterCoin
            /\ isf' = [isf EXCEPT !.i = @ + 1]
            /\ UNCHANGED << sres, syncLog >>
       ELSE /\ SyncError("delete_puzzle")
            /\ isf' = isf
    /\ UNCHANGED << db, sw, sp, progress, peerState >>
    /\ UNCHANGED << vars, filterVars >>

\* tx.derivation_index(false).await?
IsIndex(ok) ==
    /\ spc = "is_index"
    /\ IF ok
       THEN /\ isf' = [isf EXCEPT !.next_index = DerivationIndexOf(tx, FALSE)]
            /\ spc' = IF isf.derive THEN "is_max" ELSE "is_commit"
            /\ UNCHANGED << tx, sres, syncLog >>
       ELSE /\ SyncError("derivation_index")
            /\ isf' = isf
    /\ UNCHANGED << db, sw, sp, progress, peerState >>
    /\ UNCHANGED << vars, filterVars >>

\* `while next_index < max_index + 500`
AfterDerive(next_index, max_index) ==
    IF next_index < max_index + BatchSize THEN "is_derive" ELSE "is_commit"

\* tx.max_used_derivation_index(false).await?.map_or(0, |index| index + 1)
IsMax(ok) ==
    /\ spc = "is_max"
    /\ IF ok
       THEN /\ isf' = [isf EXCEPT !.max_index = MaxUsedPlusOne(tx, FALSE)]
            /\ spc' = AfterDerive(isf.next_index, MaxUsedPlusOne(tx, FALSE))
            /\ UNCHANGED << tx, sres, syncLog >>
       ELSE /\ SyncError("max_used_derivation_index")
            /\ isf' = isf
    /\ UNCHANGED << db, sw, sp, progress, peerState >>
    /\ UNCHANGED << vars, filterVars >>

\* wallet.insert_unhardened_derivations(&mut tx, next_index..next_index + 500)
IsDerive(ok) ==
    /\ spc = "is_derive"
    /\ IF ok
       THEN /\ tx' = [tx EXCEPT !.derivations[FALSE] =
                          InsertRange(@, isf.next_index, isf.next_index + BatchSize)]
            /\ isf' = [isf EXCEPT !.derived = TRUE, !.next_index = @ + BatchSize]
            /\ spc' = AfterDerive(isf.next_index + BatchSize, isf.max_index)
            /\ UNCHANGED << sres, syncLog >>
       ELSE /\ SyncError("insert_unhardened_derivations")
            /\ isf' = isf
    /\ UNCHANGED << db, sw, sp, progress, peerState >>
    /\ UNCHANGED << vars, filterVars >>

\* tx.commit().await?
IsCommit(ok) ==
    /\ spc = "is_commit"
    /\ IF ok
       THEN /\ db' = Commit(db, tx)
            /\ tx' = NoTx
            /\ spc' = "is_send"
            /\ syncLog' = [syncLog EXCEPT !.commits = 1]
            /\ sres' = sres
       ELSE /\ SyncError("commit")
            /\ db' = db
    /\ UNCHANGED << sw, sp, isf, progress, peerState >>
    /\ UNCHANGED << vars, filterVars >>

\* Ok(()) of incremental_sync, back in its caller
IsReturn ==
    /\ spc' = CASE isf.caller = "coin_ids" -> "coin_ids"
                [] isf.caller = "puzzles" -> "ph_page"
                [] OTHER -> "idle"
    /\ sw' = IF isf.caller = "coin_ids" THEN [sw EXCEPT !.chunk = @ + 1] ELSE sw
    /\ sres' = IF isf.caller = "top" THEN [sres EXCEPT !.status = "Ok"] ELSE sres

\* a send whose error is returned with `?` instead of being discarded
IsSendCoinsStrict ==
    /\ spc = "is_send"
    /\ CanSend
    /\ SendProgress(CoinsUpdated(isf.coin_states))
    /\ IF ~progress.open
       THEN /\ SyncError("send")
            /\ sw' = sw
       ELSE /\ syncLog' = LogSend(syncLog, CoinsUpdated(isf.coin_states))
            /\ tx' = tx
            /\ IF isf.derived
               THEN /\ spc' = "is_send_index"
                    /\ UNCHANGED << sw, sres >>
               ELSE IsReturn
    /\ UNCHANGED << db, sp, isf, peerState >>
    /\ UNCHANGED << vars, filterVars >>

\* a DerivationIndex event that is sent whether or not the call derived
IsSendCoinsThenIndex ==
    /\ spc = "is_send"
    /\ CanSend
    /\ SendProgress(CoinsUpdated(isf.coin_states))
    /\ syncLog' = LogSend(syncLog, CoinsUpdated(isf.coin_states))
    /\ spc' = "is_send_index"
    /\ UNCHANGED << sw, sres >>
    /\ UNCHANGED << db, tx, sp, isf, peerState >>
    /\ UNCHANGED << vars, filterVars >>

\* sync_sender.send(CoinsUpdated { coin_states }).await.ok()
IsSendCoins ==
    /\ spc = "is_send"
    /\ CanSend
    /\ SendProgress(CoinsUpdated(isf.coin_states))
    /\ syncLog' = LogSend(syncLog, CoinsUpdated(isf.coin_states))
    /\ IF isf.derived
       THEN /\ spc' = "is_send_index"
            /\ UNCHANGED << sw, sres >>
       ELSE IsReturn
    /\ UNCHANGED << db, tx, sp, isf, peerState >>
    /\ UNCHANGED << vars, filterVars >>

\* `if derived`: sync_sender.send(DerivationIndex { next_index }).await.ok()
IsSendIndex ==
    /\ spc = "is_send_index"
    /\ CanSend
    /\ SendProgress(DerivationIndex(isf.next_index))
    /\ syncLog' = LogSend(syncLog, DerivationIndex(isf.next_index))
    /\ IsReturn
    /\ UNCHANGED << db, tx, sp, isf, peerState >>
    /\ UNCHANGED << vars, filterVars >>

\* ------------------------------------------- wallet sync: the environment
\* the consumer of progress events receives the oldest one
ProgressRecv ==
    /\ progress.open
    /\ progress.buf # << >>
    /\ progress' = [progress EXCEPT !.buf = Tail(@)]
    /\ UNCHANGED << db, tx, spc, sw, sp, isf, sres, peerState, syncLog >>
    /\ UNCHANGED << vars, filterVars >>

\* the consumer drops its receiver
ProgressClose ==
    /\ progress.open
    /\ progress' = [open |-> FALSE, buf |-> << >>]
    /\ UNCHANGED << db, tx, spc, sw, sp, isf, sres, peerState, syncLog >>
    /\ UNCHANGED << vars, filterVars >>

\* the peer announces a new peak and the sync manager records it in PeerState
PeakReported(peak) ==
    /\ peerState' = peak
    /\ UNCHANGED << db, tx, spc, sw, sp, isf, sres, progress, syncLog >>
    /\ UNCHANGED << vars, filterVars >>

\* ------------------------------------ wallet connect: filter_unlocked_coins
\* coin ids as the request spells them: hex text, of which two spell the
\* same id and one is no coin id
CoinIdTexts == {"a1", "A1", "b2", "zz"}
InvalidCoinId == 0
\* parse_coin_id: the id a text stands for; hex digits in either case
ParseCoinId(text) ==
    CASE text \in {"a1", "A1"} -> 1
      [] text = "b2" -> 2
      [] OTHER -> InvalidCoinId
CoinIds == {ParseCoinId(t) : t \in CoinIdTexts} \ {InvalidCoinId}

\* req.coin_ids
FilterRequests == UNION {[1 .. k -> CoinIdTexts] : k \in 0 .. MaxCoinIds}

\* no call made yet: no request, nothing collected, nothing looked up
NoFilter == [pc |-> "idle", req |-> << >>, i |-> 0, coin_ids |-> << >>,
             reports |-> << >>, result |-> [tag |-> "none", coin_ids |-> << >>]]
FilterIdle(l) == locked = l /\ fu = NoFilter

FilterErr == [tag |-> "Err", coin_ids |-> << >>]

\* self.wallet()? and `let mut coin_ids = Vec::new()`
FilterStart(req, ok) ==
    /\ fu.pc = "idle"
    /\ fu' = IF ok
             THEN [NoFilter EXCEPT !.pc = "loop", !.req = req, !.i = 1]
             ELSE [NoFilter EXCEPT !.req = req, !.result = FilterErr]
    /\ UNCHANGED << locked, vars, syncVars >>

\* an iteration that answers with the canonical text of the parsed id
FilterLookupCanonical(ok) ==
    /\ fu.pc = "loop"
    /\ fu.i <= Len(fu.req)
    /\ LET coin_id == fu.req[fu.i]
           id == ParseCoinId(coin_id)
       IN  IF id = InvalidCoinId
           THEN /\ ok
                /\ fu' = [fu EXCEPT !.pc = "idle", !.result = FilterErr,
                                    !.reports = Append(@, "unparsed")]
           ELSE IF ~ok
           THEN fu' = [fu EXCEPT !.pc = "idle", !.result = FilterErr,
                                 !.reports = Append(@, "failed")]
           ELSE fu' = [fu EXCEPT
                         !.i = @ + 1,
                         !.coin_ids = IF id \in locked THEN @
                                      ELSE Append(@, IF id = 1 THEN "a1" ELSE "b2"),
                         !.reports = Append(@, IF id \in locked THEN "locked"
                                               ELSE "unlocked")]
    /\ UNCHANGED << locked, vars, syncVars >>

\* one iteration of `for coin_id in req.coin_ids`: parse_coin_id(..)?, then
\* wallet.db.is_coin_locked(..).await?, then the push of the requested text
FilterLookup(ok) ==
    /\ fu.pc = "loop"
    /\ fu.i <= Len(fu.req)
    /\ LET coin_id == fu.req[fu.i]
           id == ParseCoinId(coin_id)
       IN  IF id = InvalidCoinId
           THEN /\ ok
                /\ fu' = [fu EXCEPT !.pc = "idle", !.result = FilterErr,
                                    !.reports = Append(@, "unparsed")]
           ELSE IF ~ok
           THEN fu' = [fu EXCEPT !.pc = "idle", !.result = FilterErr,
                                 !.reports = Append(@, "failed")]
           ELSE fu' = [fu EXCEPT
                         !.i = @ + 1,
                         !.coin_ids = IF id \in locked THEN @
                                      ELSE Append(@, coin_id),
                         !.reports = Append(@, IF id \in locked THEN "locked"
                                               ELSE "unlocked")]
    /\ UNCHANGED << locked, vars, syncVars >>

\* Ok(FilterUnlockedCoinsResponse { coin_ids })
FilterReturn ==
    /\ fu.pc = "loop"
    /\ fu.i > Len(fu.req)
    /\ fu' = [fu EXCEPT !.pc = "idle",
                        !.result = [tag |-> "Ok", coin_ids |-> fu.coin_ids]]
    /\ UNCHANGED << locked, vars, syncVars >>

\* another endpoint locks or unlocks a coin while the call is suspended
LockChange(id) ==
    /\ locked' = IF id \in locked THEN locked \ {id} ELSE locked \cup {id}
    /\ UNCHANGED << fu, vars, syncVars >>

\* --------------------------------------------------------- specifications
\* a wallet that has never synced, and one that has: two batches of
\* derivations, a coin, puzzle rows, a peak and more asset coins than one chunk
WalletFresh ==
    [derivations |-> [h \in BOOLEAN |-> {}], coins |-> {}, puzzles |-> {},
     peak |-> NoPeak, assets |-> 0]
WalletUsed ==
    [derivations |-> [h \in BOOLEAN |-> IF h THEN {} ELSE {<< 0, 2 * BatchSize >>}],
     coins |-> {CoinA}, puzzles |-> {CoinA.coin, CoinB.coin},
     peak |-> [height |-> 1, hash |-> 1], assets |-> CoinIdChunk + 1]

\* the sync task before its first call, on the given wallet
SyncIdle(wallet) ==
    /\ db = wallet
    /\ tx = NoTx
    /\ spc = "idle"
    /\ sw = NoSw
    /\ sp = NoSp
    /\ isf = NoIsf
    /\ sres = NoSres
    /\ progress = [open |-> TRUE, buf |-> << >>]
    /\ peerState = NoPeak
    /\ syncLog = NoLog

\* the state Peer::from_websocket returns in
PeerInit ==
    /\ pc = [c \in Clients |-> "idle"]
    /\ call = [c \in Clients |-> NoCall]
    /\ result = [c \in Clients |-> NoResult]
    /\ mailbox = [c \in Clients |-> NoMsg]
    /\ requests = {}
    /\ calls = 0
    /\ sinkOwner = 0
    /\ wire = << >>
    /\ task = "running"
    /\ taskError = NoError
    /\ pending = NoMsg
    /\ peerAlive = TRUE
    /\ events = << >>
    /\ eventsOpen = TRUE
    /\ lastEvent = NoMsg
    /\ frames = 0
    /\ lastFrame = NoFrame
    /\ parked = {}
    /\ senderUses = [r \in Calls |-> [n |-> 0, lost |-> FALSE]]

Init == PeerInit /\ SyncIdle(WalletFresh) /\ FilterIdle({})

\* the (T, E) pairs a caller instantiates request_fallible with
KindPairs == {p \in Kinds \X Kinds : p[1] # p[2]}

\* a caller of the untyped operations
CallerStep(c) ==
    \/ \E encOk \in BOOLEAN : StartSend(c, encOk)
    \/ \E encOk \in BOOLEAN : StartRequest(c, "raw", 0, 0, encOk)
    \/ \E ok \in BOOLEAN : AcquireSink(c, ok)
    \/ FlushSink(c)
    \/ AwaitResponse(c)
    \/ DropFuture(c)

\* the peer's side of the transport: any frame at all, in any order
InboundStep(limit, kinds) ==
    \/ \E f \in {"Text", "Ping", "Pong", "Frame"} : RecvIgnored(limit, f)
    \/ RecvClose(limit)
    \/ RecvEnd(limit)
    \/ RecvError(limit)
    \/ RecvMalformed(limit)
    \/ \E kind \in kinds : RecvEvent(limit, kind, TRUE)
    \/ \E id \in Ids, kind \in kinds : RecvResponse(limit, id, kind, TRUE)

\* concurrent callers of send and request_raw against one peer
Next ==
    \/ \E c \in Clients : CallerStep(c)
    \/ InboundStep(MaxFrames, 1 .. 2)
    \/ ConsumeEvent

Spec == Init /\ [][Next]_vars

\* the callers alone: writers contending for the send half
SendNext ==
    \E c \in Clients :
        \/ \E encOk \in BOOLEAN : StartSend(c, encOk)
        \/ \E encOk \in BOOLEAN : StartRequest(c, "raw", 0, 0, encOk)
        \/ \E ok \in BOOLEAN : AcquireSink(c, ok)
        \/ FlushSink(c)
        \/ DropFuture(c)

SendSpec == Init /\ [][SendNext]_vars

\* one caller of request_infallible / request_fallible; the peer answers with
\* any kind and with payloads that do or do not decode
TypedNext ==
    \/ \E encOk \in BOOLEAN, T \in Kinds : StartRequest(1, "infallible", T, 0, encOk)
    \/ \E encOk \in BOOLEAN, p \in KindPairs :
           StartRequest(1, "fallible", p[1], p[2], encOk)
    \/ \E ok \in BOOLEAN : AcquireSink(1, ok)
    \/ FlushSink(1)
    \/ AwaitResponse(1)
    \/ DropFuture(1)
    \/ \E id \in Ids, kind \in Kinds, dec \in BOOLEAN :
           RecvResponse(MaxFrames, id, kind, dec)

TypedSpec == Init /\ [][TypedNext]_vars

\* a peer that pushes enough unsolicited messages to fill the event channel,
\* a consumer that reads them or goes away, and one request whose response
\* arrives in between
EventNext ==
    \/ calls = 0 /\ StartRequest(1, "raw", 0, 0, TRUE)
    \/ AcquireSink(1, TRUE)
    \/ FlushSink(1)
    \/ AwaitResponse(1)
    \/ RecvEvent(MaxEventFrames, 1, TRUE)
    \/ \E id \in Ids : RecvResponse(MaxEventFrames, id, 1, TRUE)
    \/ EventSendResume
    \/ ConsumeEvent
    \/ CloseEvents

EventSpec == Init /\ [][EventNext]_vars

\* teardown: the transport closes or fails, callers give up their handles
TeardownNext ==
    \/ \E c \in Clients :
         \/ StartRequest(c, "raw", 0, 0, TRUE)
         \/ AcquireSink(c, TRUE)
         \/ FlushSink(c)
         \/ AwaitResponse(c)
         \/ DropFuture(c)
         \/ DropHandle(c)
    \/ RecvClose(MaxFrames)
    \/ RecvEnd(MaxFrames)
    \/ RecvError(MaxFrames)
    \/ \E id \in Ids : RecvResponse(MaxFrames, id, 1, TRUE)
    \/ TaskAbort

\* what the executor guarantees: a future that can make progress is polled
\* (the sink's mutex is granted, a write completes, a ready receiver wakes its
\* waiter) and an aborted task is dropped; nothing obliges the peer to send
\* or a caller to start, cancel or drop anything
CallerProgress(c) == AcquireSink(c, TRUE) \/ FlushSink(c) \/ AwaitResponse(c)

FairSpec ==
    /\ Init
    /\ [][TeardownNext]_vars
    /\ \A c \in Clients : WF_vars(CallerProgress(c))
    /\ WF_vars(TaskAbort)

\* callers of request_raw whose encoding or write can fail, a peer that
\* answers any id, and the teardown of the RequestMap
LeakNext ==
    \/ \E c \in Clients :
         \/ \E encOk \in BOOLEAN : StartRequest(c, "raw", 0, 0, encOk)
         \/ \E ok \in BOOLEAN : AcquireSink(c, ok)
         \/ FlushSink(c)
         \/ AwaitResponse(c)
         \/ DropHandle(c)
    \/ \E id \in Ids : RecvResponse(MaxFrames, id, 1, TRUE)
    \/ RecvClose(MaxFrames)
    \/ TaskAbort

LeakSpec == Init /\ [][LeakNext]_vars

\* ------------------------------------------- wallet sync: specifications
allVars == << vars, syncVars, filterVars >>

SyncInit ==
    /\ PeerInit
    /\ \E wallet \in {WalletFresh, WalletUsed} : SyncIdle(wallet)
    /\ FilterIdle({})

\* the steps of the sync task, against a peer that answers with the given
\* coin_states vectors and cursors, or not at all
SyncStep(lists, anchors) ==
    \/ CoinIdsNext
    \/ \E ok \in BOOLEAN, l \in lists \cup {<< >>} : CoinsResponse(ok, l)
    \/ KnownNext
    \/ PuzzleRequest
    \/ \E ok \in BOOLEAN, data \in PuzzleData(lists, anchors) : PuzzleResponse(ok, data)
    \/ PuzzlePage
    \/ \E ok \in BOOLEAN : FrontierHead(ok)
    \/ \E ok \in BOOLEAN : FrontierInsert(ok)
    \/ \E ok \in BOOLEAN : FrontierCommit(ok)
    \/ FrontierSend
    \/ \E ok \in BOOLEAN : PersistPeak(ok)

\* the steps of incremental_sync
IncrementalStep ==
    \/ \E ok \in BOOLEAN : IsBegin(ok)
    \/ \E ok \in BOOLEAN : IsUpsert(ok)
    \/ \E ok \in BOOLEAN : IsDelete(ok)
    \/ \E ok \in BOOLEAN : IsIndex(ok)
    \/ \E ok \in BOOLEAN : IsMax(ok)
    \/ \E ok \in BOOLEAN : IsDerive(ok)
    \/ \E ok \in BOOLEAN : IsCommit(ok)
    \/ IsSendCoins
    \/ IsSendIndex

\* the steps of incremental_sync over coin states none of which is spent:
\* delete_puzzle is never reached
IncrementalStepUnspent ==
    \/ \E ok \in BOOLEAN : IsBegin(ok)
    \/ \E ok \in BOOLEAN : IsUpsert(ok)
    \/ \E ok \in BOOLEAN : IsIndex(ok)
    \/ \E ok \in BOOLEAN : IsMax(ok)
    \/ \E ok \in BOOLEAN : IsDerive(ok)
    \/ \E ok \in BOOLEAN : IsCommit(ok)
    \/ IsSendCoins
    \/ IsSendIndex

\* sync_wallet and incremental_sync called one after another on one wallet,
\* with a consumer that reads progress events or goes away
SyncNext ==
    \/ \E ok \in BOOLEAN : SyncWalletStart(ok)
    \/ SyncStep(CoinStateLists, {[height |-> 1, hash |-> 1]})
    \/ \E l \in CoinStateLists, derive \in BOOLEAN : IncrementalSyncStart(l, derive)
    \/ IncrementalStep
    \/ ProgressRecv
    \/ ProgressClose

SyncSpec == SyncInit /\ [][SyncNext]_allVars

\* sync_wallet on a wallet that has never synced, against a peer that knows
\* one unspent coin paid to the derivation at index 37
DeriveNext ==
    \/ \E ok \in BOOLEAN : SyncWalletStart(ok)
    \/ CoinIdsNext
    \/ KnownNext
    \/ PuzzleRequest
    \/ \E ok \in BOOLEAN, data \in PuzzleData({<< CoinA >>}, {[height |-> 1, hash |-> 1]}) :
           PuzzleResponse(ok, data)
    \/ PuzzlePage
    \/ \E ok \in BOOLEAN : FrontierHead(ok)
    \/ \E ok \in BOOLEAN : FrontierInsert(ok)
    \/ \E ok \in BOOLEAN : FrontierCommit(ok)
    \/ FrontierSend
    \/ \E ok \in BOOLEAN : PersistPeak(ok)
    \/ IncrementalStepUnspent
    \/ ProgressRecv
    \/ ProgressClose

\* sync_wallet against a peer that finds no coins, while the peer's peak
\* announcements are recorded in PeerState
PeakNext ==
    \/ \E ok \in BOOLEAN : sres.n = 0 /\ SyncWalletStart(ok)
    \/ SyncStep({}, {[height |-> 1, hash |-> 1]})
    \/ \E peak \in Peaks : PeakReported(peak)
    \/ ProgressRecv
    \/ ProgressClose

PeakSpec == SyncInit /\ [][PeakNext]_allVars

\* sync_wallet against a peer that pages its answers and moves its cursor
\* freely from page to page
PageNext ==
    \/ \E ok \in BOOLEAN : sres.n = 0 /\ SyncWalletStart(ok)
    \/ SyncStep({<< CoinA >>}, Peaks)
    \/ IncrementalStepUnspent
    \/ ProgressRecv
    \/ ProgressClose

PageSpec == SyncInit /\ [][PageNext]_allVars

\* sync_wallet through all of its phases: coin ids, known puzzle hashes,
\* the frontier and the peak
OrderNext ==
    \/ \E ok \in BOOLEAN : sres.n = 0 /\ SyncWalletStart(ok)
    \/ SyncStep({<< CoinA >>}, {[height |-> 1, hash |-> 1]})
    \/ IncrementalStepUnspent
    \/ \E peak \in {p \in Peaks : p.hash = p.height} : PeakReported(peak)
    \/ ProgressRecv

OrderSpec == SyncInit /\ [][OrderNext]_allVars

DeriveSpec == Init /\ [][DeriveNext]_allVars

\* the steps of the sync task once a call has begun: the executor polls a
\* task that can run, every database call returns, and every subscription
\* ends in a response or in its timeout; nothing obliges the consumer of the
\* progress events to receive
SyncProgress ==
    \/ CoinIdsNext
    \/ KnownNext
    \/ PuzzleRequest
    \/ \E ok \in BOOLEAN, data \in PuzzleData({<< CoinA >>}, {[height |-> 1, hash |-> 1]}) :
           PuzzleResponse(ok, data)
    \/ PuzzlePage
    \/ \E ok \in BOOLEAN : FrontierHead(ok)
    \/ \E ok \in BOOLEAN : FrontierInsert(ok)
    \/ \E ok \in BOOLEAN : FrontierCommit(ok)
    \/ FrontierSend
    \/ \E ok \in BOOLEAN : PersistPeak(ok)
    \/ IncrementalStep

FairSyncSpec ==
    /\ Init
    /\ [][DeriveNext]_allVars
    /\ WF_allVars(SyncProgress)

\* ---------------------------------------- wallet connect: specifications
\* one call of filter_unlocked_coins on a wallet whose locks other
\* endpoints change meanwhile
FilterInit ==
    /\ PeerInit
    /\ SyncIdle(WalletFresh)
    /\ \E l \in SUBSET CoinIds : FilterIdle(l)

FilterNext ==
    \/ \E req \in FilterRequests, ok \in BOOLEAN :
           fu.result.tag = "none" /\ FilterStart(req, ok)
    \/ \E ok \in BOOLEAN : FilterLookup(ok)
    \/ FilterReturn
    \/ \E id \in CoinIds : LockChange(id)

FilterSpec == FilterInit /\ [][FilterNext]_allVars

C2_ResponseMatchesRequest ==
    \A c \in Clients :
        LET m == IF mailbox[c] # NoMsg THEN mailbox[c] ELSE result[c].msg
        IN m # NoMsg =>
             /\ m.id = call[c].id
             /\ \A s \in requests : s.req # call[c].req
             /\ \A d \in Clients \ {c} : mailbox[d].no # m.no /\ result[d].msg.no # m.no
             /\ \A i \in 1 .. Len(events) : events[i].no # m.no
             /\ lastEvent.no # m.no
             /\ pending.no # m.no

\* two requests answered in the reverse of the order they were made in
C2_Witness ==
    /\ result[1].tag = "Ok" /\ result[2].tag = "Ok"
    /\ call[1].req < call[2].req
    /\ result[1].msg.no > result[2].msg.no

\* C3: whenever the inbound task has terminated (Close frame, end of stream or
\* failure) while the Peer handle is alive, the RequestMap is dropped and every
\* request waiter parked at that moment eventually stops waiting (it resolves
\* with PeerDropped); no parked waiter stays pending forever.
C3_TerminatedTaskWakesWaiters ==
    \A c \in Clients :
        (task \in {"closed", "ended", "failed"} /\ peerAlive
            /\ pc[c] = "awaiting" /\ call[c].req \in parked)
        ~> (pc[c] # "awaiting")

ResponseFrame ==
    frames' = frames + 1 /\ lastFrame'.type = "Binary" /\ lastFrame'.id # NoId

\* the step that takes a Binary frame whose Message has no id
EventFrame ==
    frames' = frames + 1 /\ lastFrame'.type = "Binary" /\ lastFrame'.id = NoId

\* C5: a binary message whose id is present but has no live slot (never
\* allocated, or already answered) fails the inbound task with
\* UnexpectedMessage(kind); the task then takes no further frame; no slot's
\* sender is consumed more than once.
C5_UntrackedIdFailsTask ==
    /\ [][(ResponseFrame /\ lastFrame'.id \notin LiveIds)
            => /\ task' = "failed"
               /\ taskError' = [tag |-> "UnexpectedMessage", kind |-> lastFrame'.kind]
               /\ UNCHANGED << mailbox, requests, events, senderUses >>]_vars
    /\ [][task = "failed"
            => /\ UNCHANGED << task, taskError, frames, lastFrame, senderUses >>
               /\ requests \subseteq requests'
               /\ \A c \in Clients : mailbox'[c] \in {mailbox[c], NoMsg}
               /\ Len(events') <= Len(events)]_vars
    /\ [](\A r \in Calls : senderUses[r].n <= 1)

\* a second response carrying an id that was already answered failed the task
C5_Witness ==
    /\ task = "failed"
    /\ taskError.tag = "UnexpectedMessage"
    /\ \E c \in Clients : /\ result[c].tag = "Ok"
                          /\ call[c].id = lastFrame.id
                          /\ senderUses[call[c].req].n = 1

\* C9: dropping a request future before its response arrives leaves the slot
\* allocated; the response that arrives later takes the slot out of the
\* RequestMap and is discarded, the inbound task keeps running and later
\* requests are answered.
C9_LateResponseDiscarded ==
    /\ [][\A c \in Clients :
            (pc[c] \in InFlight /\ pc'[c] = "idle" /\ result'[c].tag = "Cancelled")
                => requests' = requests]_vars
    /\ [][(ResponseFrame /\ lastFrame'.id \in LiveIds
             /\ \A s \in RemoveSlots(requests, lastFrame'.id) : Receivers(s) = {})
            => /\ task' = "running"
               /\ taskError' = taskError
               /\ requests' = requests \ RemoveSlots(requests, lastFrame'.id)
               /\ mailbox' = mailbox
               /\ events' = events]_vars

\* a late response was discarded and a request made after it was answered
C9_Witness ==
    /\ task = "running"
    /\ \E r \in Calls, c \in Clients :
         /\ senderUses[r].lost
         /\ call[c].req > r
         /\ result[c].tag = "Ok"

\* C10: at most one caller of send or request_raw writes to the send half at a
\* time: the writer is the holder of the sink's mutex, and on the wire every
\* frame is whole, never interleaved with another caller's frame.
C10_SinkExclusive ==
    /\ Cardinality({c \in Clients : pc[c] = "flushing"}) <= 1
    /\ \A c \in Clients : pc[c] = "flushing" <=> sinkOwner = c
    /\ \A i \in 1 .. Len(wire) :
         /\ wire[i].part = "head" =>
              IF i = Len(wire)
              THEN \E c \in Clients : pc[c] = "flushing" /\ call[c].req = wire[i].req
              ELSE wire[i + 1] = [wire[i] EXCEPT !.part = "tail"]
         /\ wire[i].part = "tail" =>
              i > 1 /\ wire[i - 1] = [wire[i] EXCEPT !.part = "head"]

\* one caller is writing its frame while another waits for the mutex
C10_Witness ==
    \E c, d \in Clients : pc[c] = "flushing" /\ pc[d] = "locking"

\* the Message built from the frame taken in this step
FrameMessage ==
    [kind |-> lastFrame'.kind, id |-> lastFrame'.id, dec |-> TRUE, no |-> frames']

\* C6 (as stated): a message with no id that finds the unsolicited-event
\* channel full or closed fails the inbound task with EventNotSent; the task
\* does not wait for the consumer to free capacity.
C6_FullOrClosedFailsTask ==
    [][(EventFrame /\ (~eventsOpen \/ Len(events) >= EventCapacity))
         => (task' = "failed" /\ taskError'.tag = "EventNotSent")]_vars

\* C6 (amended): a message with no id fails the inbound task with EventNotSent
\* when the event channel is closed; when the channel is open and full (32
\* queued) the task waits in sender.send holding the message and takes no
\* further frame, until the consumer frees capacity (the message is then
\* queued) or closes the channel (the task then fails with EventNotSent).
C6_ClosedFailsFullWaits ==
    /\ [][EventFrame =>
            IF ~eventsOpen
            THEN task' = "failed" /\ taskError'.tag = "EventNotSent"
            ELSE IF Len(events) >= EventCapacity
            THEN /\ task' = "blocked"
                 /\ pending' = FrameMessage
                 /\ UNCHANGED << events, taskError >>
            ELSE /\ task' = "running"
                 /\ events' = Append(events, FrameMessage)]_vars
    /\ [][task = "blocked" =>
            /\ UNCHANGED << frames, lastFrame >>
            /\ \/ task' = "blocked" /\ pending' = pending
               \/ /\ task' = "running"
                  /\ Len(events) < EventCapacity
                  /\ events' = Append(events, pending)
               \/ /\ task' = "failed"
                  /\ ~eventsOpen
                  /\ taskError'.tag = "EventNotSent"]_vars
    /\ [](Len(events) <= EventCapacity)

\* the channel is full and the inbound task is held up in sender.send
C6_Witness ==
    /\ task = "blocked"
    /\ eventsOpen
    /\ Len(events) = EventCapacity
    /\ pending.no > EventCapacity

\* C7: messages with no id reach the consumer of the unsolicited-event channel
\* in the order their frames arrived, correlated responses in between
\* notwithstanding, and forwarding one touches no RequestMap entry.
C7_EventsInArrivalOrder ==
    /\ [](\A i \in 1 .. Len(events) :
            /\ lastEvent.no < events[i].no
            /\ i < Len(events) => events[i].no < events[i + 1].no
            /\ pending # NoMsg => events[i].no < pending.no)
    /\ [][(eventsOpen /\ lastEvent' # lastEvent) => lastEvent' = Head(events)]_vars
    /\ [][EventFrame =>
            /\ UNCHANGED << requests, mailbox, senderUses >>
            /\ (eventsOpen /\ Len(events) < EventCapacity)
                 => events' = Append(events, FrameMessage)]_vars

\* the consumer has read one event, a response was delivered after it, and a
\* later event waits behind another in the channel
C7_Witness ==
    /\ lastEvent # NoMsg
    /\ Len(events) >= 2
    /\ \E c \in Clients :
         /\ result[c].tag = "Ok"
         /\ lastEvent.no < result[c].msg.no
         /\ result[c].msg.no < Head(events).no

\* C8 (as stated): request_fallible<T,E> returns Ok(Ok(T)) when the response
\* has kind T, Ok(Err(E)) when it has kind E, InvalidResponse([T,E], got) for
\* every other kind; request_infallible<T> returns T when the kind is T and
\* InvalidResponse([T], got) otherwise.
C8_KindAloneDecides ==
    \A c \in Clients :
        LET m == result[c].msg
            cl == call[c]
        IN (pc[c] = "idle" /\ m # NoMsg) =>
             /\ cl.api = "fallible" =>
                  /\ m.kind = cl.T => result[c].tag = "OkOk"
                  /\ m.kind = cl.E => result[c].tag = "OkErr"
                  /\ m.kind \notin {cl.T, cl.E} =>
                       result[c] = Res("InvalidResponse", m, << cl.T, cl.E >>)
             /\ cl.api = "infallible" =>
                  /\ m.kind = cl.T => result[c].tag = "Ok"
                  /\ m.kind # cl.T => result[c] = Res("InvalidResponse", m, << cl.T >>)

\* C8 (amended): request_fallible<T,E> returns Ok(Ok(T)) when the response has
\* kind T and its payload decodes as T, Ok(Err(E)) when it has kind E and its
\* payload decodes as E, the decoding error when the payload of a T or E
\* response does not decode, and InvalidResponse([T,E], got) for every other
\* kind; request_infallible<T> returns T only for a response of kind T whose
\* payload decodes, the decoding error when it does not, and
\* InvalidResponse([T], got) for every other kind. A rejection is never
\* surfaced as a success.
C8_KindAndPayloadDecide ==
    \A c \in Clients :
        LET m == result[c].msg
            cl == call[c]
            tag == result[c].tag
        IN (pc[c] = "idle" /\ m # NoMsg) =>
             /\ cl.api = "fallible" =>
                  /\ (m.kind = cl.T /\ m.dec) => tag = "OkOk"
                  /\ (m.kind = cl.E /\ m.dec) => tag = "OkErr"
                  /\ (m.kind \in {cl.T, cl.E} /\ ~m.dec) => tag = "Streamable"
                  /\ m.kind \notin {cl.T, cl.E} =>
                       result[c] = Res("InvalidResponse", m, << cl.T, cl.E >>)
                  /\ tag = "OkOk" => m.kind = cl.T
                  /\ tag = "OkErr" => m.kind = cl.E
             /\ cl.api = "infallible" =>
                  /\ (m.kind = cl.T /\ m.dec) => tag = "Ok"
                  /\ (m.kind = cl.T /\ ~m.dec) => tag = "Streamable"
                  /\ m.kind # cl.T => result[c] = Res("InvalidResponse", m, << cl.T >>)
                  /\ tag = "Ok" => m.kind = cl.T

\* a response of the rejection kind came back for a request_fallible call and
\* was surfaced as Ok(Err(E))
C8_Witness ==
    /\ pc[1] = "idle"
    /\ call[1].api = "fallible"
    /\ result[1].tag = "OkErr"
    /\ result[1].msg.kind = call[1].E

\* ------------------------------------------------ properties: wallet sync
\* the calls of incremental_sync that can fail before tx.commit()
BeforeCommit ==
    {"upsert_coin", "delete_puzzle", "derivation_index",
     "max_used_derivation_index", "insert_unhardened_derivations"}

\* C11: incremental_sync is atomic: when a coin upsert, a puzzle delete, a
\* derivation query or a derivation insert fails before the commit, the call
\* returns an error, the committed coin, puzzle and derivation rows are
\* exactly those the call found, and no progress event has been sent by it.
C11_IncrementalSyncAtomic ==
    (sres.status = "Err" /\ syncLog.failed \in BeforeCommit) =>
        /\ spc = "idle"
        /\ tx = NoTx
        /\ db = isf.before.db
        /\ syncLog.sends = isf.before.sends

\* a derivation insert failed after the coins of the call were upserted in
\* the transaction, one of them a row the database does not have
C11_Witness ==
    /\ sres.status = "Err"
    /\ syncLog.failed = "insert_unhardened_derivations"
    /\ isf.i = Len(isf.coin_states) + 1
    /\ \E k \in 1 .. Len(isf.coin_states) : isf.coin_states[k] \notin db.coins

\* sync_wallet has returned Ok on a wallet that had no derivation and no peak,
\* the peer's responses carried coin states once, and every event was taken
\* by the channel
FreshWalletSynced ==
    /\ sres = [call |-> "sync_wallet", n |-> 1, status |-> "Ok"]
    /\ syncLog.before = WalletFresh
    /\ syncLog.coinResponses = 1
    /\ syncLog.unsent = 0

\* C12: from 0 persisted derivations and no persisted peak, with one coin at
\* derivation index 37 in the peer's puzzle-state response, sync_wallet
\* completes with exactly the unhardened derivations 0..499 persisted, one
\* coin row, and DerivationIndex{500} and CoinsUpdated sent.
C12_FreshWalletDerives500 ==
    FreshWalletSynced =>
        /\ db.derivations = [h \in BOOLEAN |-> IF h THEN {} ELSE {<< 0, 500 >>}]
        /\ db.coins = {CoinA}
        /\ {DerivationIndex(500), CoinsUpdated(<< CoinA >>)} \subseteq syncLog.sent

\* C12, amended: in that run sync_wallet completes with exactly the
\* unhardened derivations 0..999 persisted (incremental_sync keeps 500
\* derivations beyond the highest used one), one coin row, and
\* DerivationIndex{500}, CoinsUpdated and DerivationIndex{1000} sent.
C12_FreshWalletDerives1000 ==
    FreshWalletSynced =>
        /\ db.derivations = [h \in BOOLEAN |-> IF h THEN {} ELSE {<< 0, 1000 >>}]
        /\ db.coins = {CoinA}
        /\ syncLog.sent = {DerivationIndex(500), CoinsUpdated(<< CoinA >>),
                           DerivationIndex(1000)}

C12_Witness ==
    /\ FreshWalletSynced
    /\ CoinA \in db.coins
    /\ spc = "idle"

\* C13: when sync_wallet returns success the persisted peak is the peak that
\* PeerState holds for the peer at the read that ends the sync, or the peak
\* persisted before the call if PeerState holds none; and whenever the
\* persisted peak changes, it changes to the peak PeerState holds, which
\* the peer has reported.
C13_PeakFollowsPeerState ==
    [][ /\ (sres.call = "sync_wallet" /\ sres.status = "running"
              /\ sres'.status = "Ok")
            => db'.peak = IF peerState = NoPeak THEN syncLog.before.peak
                          ELSE peerState
        /\ db'.peak = db.peak \/ (peerState # NoPeak /\ db'.peak = peerState) ]_allVars

\* sync_wallet has returned with a persisted peak that is another one than
\* the call started from, and PeerState has moved on since
C13_Witness ==
    /\ sres.call = "sync_wallet"
    /\ sres.status = "Ok"
    /\ syncLog.phase = 4
    /\ db.peak # syncLog.before.peak
    /\ syncLog.before.peak # NoPeak
    /\ peerState # db.peak

\* derive_more as the claim gives it: no puzzle hash was known when the call
\* began and the loop has not run yet, or a page of the puzzle-hash syncs
\* made since the last test of the loop brought coin states
IterateAgain ==
    \/ syncLog.tests = 0 /\ DerivationCount(syncLog.before) = 0
    \/ syncLog.roundFound

\* the test of the frontier loop: sync_wallet runs another
\* iteration exactly when no puzzle hash was known at the start or the most
\* recent puzzle-hash sync found a coin state; a batch synced without a coin
\* state ends it.
FrontierLoopTest ==
    [][ (spc = "frontier" /\ spc' # "frontier")
            => ((spc' # "peak") <=> IterateAgain) ]_allVars

\* C14: the loop test above, and sync_wallet terminates whenever the peer
\* finishes each pagination and in the end reports no coins for a batch.
C14_FrontierLoopTerminates ==
    /\ FrontierLoopTest
    /\ (sres.status = "running") ~> (sres.status # "running")

\* the (start_height, start_header_hash) the running sync_puzzle_hashes call
\* was given: the persisted peak (genesis without one) for a known chunk,
\* genesis for a frontier batch
GivenAnchor ==
    IF sp.caller = "known" /\ syncLog.before.peak # NoPeak
    THEN syncLog.before.peak ELSE Genesis

\* C15: in one sync_puzzle_hashes call the first request is anchored at the
\* given (start_height, start_header_hash) and every later one at the
\* (height, header_hash) of the response just before it; a request is only
\* sent when all earlier ones are answered; the loop ends at the first
\* response with is_finished, after exactly one request more than there
\* were unfinished pages.
C15_PagesFollowCursor ==
    [][ /\ (spc = "ph_request" /\ spc' = "ph_wait") =>
              /\ sp.prev = IF syncLog.reqs = 0 THEN GivenAnchor
                            ELSE syncLog.lastResp
              /\ syncLog.reqs = syncLog.unfinished
              /\ ~syncLog.finished
        /\ (spc = "ph_wait" /\ spc' # "idle") => syncLog'.reqs = syncLog.reqs
        /\ (spc = "ph_page" /\ spc' # "ph_page") =>
              ((spc' \in {"known", "frontier"}) <=> syncLog.finished)
        /\ (spc = "ph_page" /\ spc' \in {"known", "frontier"}) =>
              syncLog.reqs = syncLog.unfinished + 1 ]_allVars

\* a call has ended after as many unfinished pages as the peer may send, its
\* last request anchored at a cursor other than the given anchor
C15_Witness ==
    /\ spc = "ph_page"
    /\ syncLog.finished
    /\ syncLog.unfinished = MaxPages
    /\ syncLog.reqs = MaxPages + 1
    /\ sp.prev # GivenAnchor
    /\ sp.prev # syncLog.lastResp

\* every chunk of the coin ids read at the start has been requested
CoinIdsDone == syncLog.coinReqs * CoinIdChunk >= syncLog.before.assets
\* sync_puzzle_hashes has been called for every chunk of the puzzle hashes
\* read at the start, and the last of these calls has seen its final page
KnownDone ==
    /\ syncLog.knownCalls * BatchSize >= DerivationCount(syncLog.before)
    /\ syncLog.reqs = 0 \/ syncLog.finished

\* C16: in a run of sync_wallet every coin-id subscription (step 3) is over
\* before the first puzzle-hash subscription for known hashes (step 4), all
\* of which are over before the first frontier batch is persisted; the peak
\* is persisted only when the frontier loop has ended; and sync_puzzle_hashes
\* is called for a chunk only when the call for the chunk before has ended.
C16_PhasesInOrder ==
    [][ /\ (spc = "coin_ids" /\ spc' = "coins_wait") => syncLog.phase <= 1
        /\ (spc = "ph_request" /\ spc' = "ph_wait") =>
              /\ CoinIdsDone
              /\ sp.caller = "known" => syncLog.phase <= 2
        /\ (spc = "fr_commit" /\ db' # db) => CoinIdsDone /\ KnownDone
        /\ (spc' = "ph_request" /\ spc \in {"known", "fr_send"}) =>
              (syncLog.reqs = 0 \/ syncLog.finished)
        /\ (sres.status = "running" /\ db'.peak # db.peak) =>
              /\ spc = "peak"
              /\ CoinIdsDone /\ KnownDone
              /\ syncLog.tests = 1 /\ ~syncLog.roundFound ]_allVars

\* a run that went through two coin-id chunks, two known chunks and a
\* frontier batch has persisted a new peak
C16_Witness ==
    /\ sres.call = "sync_wallet" /\ sres.status = "Ok"
    /\ syncLog.coinReqs = 2
    /\ syncLog.knownCalls = 2
    /\ syncLog.phase = 4
    /\ syncLog.commits = 1
    /\ db.peak # syncLog.before.peak
    /\ db.derivations # syncLog.before.derivations

\* C17: when a coin or puzzle subscription of sync_wallet times out, is
\* rejected or fails, sync_wallet returns the error at once: from then on
\* the call sends no request, derives nothing and writes nothing, the
\* persisted peak is the one from before the call, and what the call had
\* committed before the failure stays committed.
C17_SubscriptionFailureIsFatal ==
    /\ [](syncLog.failed = "subscription" =>
            /\ sres.status = "Err"
            /\ spc = "idle"
            /\ tx = NoTx
            /\ db.peak = syncLog.before.peak)
    /\ [][ /\ (spc \in {"coins_wait", "ph_wait"}
                /\ syncLog'.failed = "subscription") => db' = db
           /\ (syncLog.failed = "subscription"
                /\ syncLog'.failed = "subscription") =>
                 /\ db' = db
                 /\ syncLog'.reqs = syncLog.reqs
                 /\ syncLog'.coinReqs = syncLog.coinReqs ]_allVars

\* a puzzle subscription failed after the call had committed a frontier
\* batch, while PeerState holds a peak that was not persisted
C17_Witness ==
    /\ syncLog.failed = "subscription"
    /\ syncLog.commits = 1
    /\ db.derivations # syncLog.before.derivations
    /\ peerState # NoPeak
    /\ peerState # db.peak

\* the sync task is at one of its three sends of a progress event
AtProgressSend == spc \in {"fr_send", "is_send", "is_send_index"}

\* C18: sync never blocks on the delivery of a progress event: at each send
\* the task can go on at once, whatever the consumer does, a full channel
\* included (the event is then dropped).
C18_NeverBlocksOnEvents ==
    AtProgressSend => ENABLED (FrontierSend \/ IsSendCoins \/ IsSendIndex)

\* where the task stands after the send it is at, the event delivered
AfterSend ==
    CASE spc = "fr_send" -> "ph_request"
      [] spc = "is_send" /\ isf.derived -> "is_send_index"
      [] isf.caller = "coin_ids" -> "coin_ids"
      [] isf.caller = "puzzles" -> "ph_page"
      [] OTHER -> "idle"

\* C19: with the consumer of the progress events gone, a send neither fails
\* the call nor touches the database: the task goes on exactly where it
\* would with the event delivered, the committed rows stay, and
\* incremental_sync and sync_wallet return success as before.
C19_ClosedChannelIsHarmless ==
    [][ (AtProgressSend /\ ~progress.open /\ spc' # spc) =>
            /\ spc' = AfterSend
            /\ db' = db
            /\ tx' = tx
            /\ sres'.status # "Err"
            /\ syncLog'.failed = "none"
            /\ spc' = "idle" => sres'.status = "Ok" ]_allVars

\* a call has returned success after committing new rows although a send
\* found the channel closed
C19_Witness ==
    /\ sres.status = "Ok"
    /\ syncLog.unsent = 1
    /\ syncLog.commits = 1
    /\ ~progress.open
    /\ db # syncLog.before

C21_FrontierBatchIsNextBlock ==
    [][ (spc = "frontier" /\ spc' = "fr_insert") =>
            sw'.batch = << RangeSum(db.derivations[FALSE]),
                           RangeSum(db.derivations[FALSE]) + BatchSize >> ]_allVars

\* C22: when incremental_sync commits with derive_automatically set, the
\* unhardened derivation index is at least 500 beyond the highest used
\* derivation (at least 500 when none is used) and has advanced by a
\* multiple of 500 since the call began; with derive_automatically unset
\* the call commits the derivations it found.
C22_KeepsUnusedDerivationsAhead ==
    [][ (spc = "is_commit" /\ spc' = "is_send") =>
            IF isf.derive
            THEN /\ DerivationIndexOf(db', FALSE)
                      >= MaxUsedPlusOne(db', FALSE) + BatchSize
                 /\ (DerivationIndexOf(db', FALSE)
                      - DerivationIndexOf(isf.before.db, FALSE)) % BatchSize = 0
            ELSE db'.derivations = isf.before.db.derivations ]_allVars

\* what the loop of incremental_sync does keep: the highest used derivation
\* is read once, after the upserts and before any derivation is added.
\* When the call commits with derive_automatically set, the unhardened
\* derivation index is the first multiple-of-500 step from the index the
\* call began with that is at least 500 beyond that reading; a coin row
\* that pays to a derivation added by this very call is not counted. With
\* derive_automatically unset the derivations are left as they were.
DerivationsAheadOfRead ==
    [][ (spc = "is_commit" /\ spc' = "is_send") =>
            LET used == MaxUsedPlusOne(
                            [db' EXCEPT !.derivations = isf.before.db.derivations],
                            FALSE)
            IN  IF isf.derive
                THEN /\ DerivationIndexOf(db', FALSE) >= used + BatchSize
                     /\ (DerivationIndexOf(db', FALSE)
                          - DerivationIndexOf(isf.before.db, FALSE)) % BatchSize = 0
                     /\ DerivationIndexOf(db', FALSE) = isf.next_index
                     /\ isf.derived =>
                          DerivationIndexOf(db', FALSE) - BatchSize < used + BatchSize
                     /\ isf.derived <=> db'.derivations # isf.before.db.derivations
                ELSE db'.derivations = isf.before.db.derivations ]_allVars

\* C23: when incremental_sync commits, every coin state of the batch is the
\* committed row of its coin, no coin the batch records as spent has a
\* puzzle row, and the puzzle rows of all other coins, the unspent ones of
\* the batch included, are as they were when the call began; the puzzle
\* rows change at that commit and nowhere else.
C23_SpentCoinsLoseTheirPuzzle ==
    [][ /\ (spc = "is_commit" /\ spc' = "is_send") =>
              LET batch == {isf.coin_states[i] : i \in 1 .. Len(isf.coin_states)}
                  spent == {cs.coin : cs \in {x \in batch : x.spent}}
              IN  /\ batch \subseteq db'.coins
                  /\ db'.puzzles = isf.before.db.puzzles \ spent
        /\ db'.puzzles # db.puzzles => spc = "is_commit" ]_allVars

\* a commit has stored an unspent and a spent coin; the puzzle row of the
\* spent one is gone and that of the unspent one is still there
C23_Witness ==
    /\ spc = "is_send"
    /\ isf.coin_states = << CoinA, CoinB >>
    /\ CoinA.coin \in db.puzzles
    /\ CoinB.coin \in isf.before.db.puzzles
    /\ CoinB.coin \notin db.puzzles
    /\ { CoinA, CoinB } \subseteq db.coins

\* incremental_sync is between its entry and its commit
BeforeEvents ==
    spc \in {"is_begin", "is_upsert", "is_delete", "is_index", "is_max",
             "is_derive", "is_commit"}

\* C24: incremental_sync sends nothing before its commit and nothing when
\* it fails; after the commit it sends CoinsUpdated with the batch, whose
\* rows are committed by then, once, and after it DerivationIndex if and
\* only if the call added derivations, carrying the committed unhardened
\* derivation index; a call that returns has made exactly these sends.
C24_EventsFollowCommit ==
    /\ [](BeforeEvents => syncLog.sends = isf.before.sends)
    /\ [][ /\ (spc = "is_send" /\ spc' # spc) =>
                /\ progress.open =>
                     progress'.buf = Append(progress.buf,
                                            CoinsUpdated(isf.coin_states))
                /\ syncLog'.sends = isf.before.sends + 1
                /\ \A i \in 1 .. Len(isf.coin_states) : isf.coin_states[i] \in db.coins
                /\ spc' = "is_send_index"
                     <=> db.derivations # isf.before.db.derivations
           /\ (spc = "is_send_index" /\ spc' # spc) =>
                /\ progress.open =>
                     progress'.buf = Append(progress.buf,
                                            DerivationIndex(DerivationIndexOf(db, FALSE)))
                /\ syncLog'.sends = isf.before.sends + 2
           /\ (BeforeEvents /\ sres'.status = "Err") =>
                /\ syncLog'.sends = isf.before.sends
                /\ progress' = progress ]_allVars

\* a call of incremental_sync has returned after adding derivations, and
\* the consumer holds both of its events, CoinsUpdated first
C24_Witness ==
    /\ sres.call = "incremental_sync"
    /\ sres.status = "Ok"
    /\ db.derivations # syncLog.before.derivations
    /\ progress.buf = << CoinsUpdated(<< CoinA >>),
                         DerivationIndex(DerivationIndexOf(db, FALSE)) >>

\* C25: across the pages of one sync_puzzle_hashes call the anchor never
\* moves back: the cursor of a response, adopted as the anchor of the next
\* request, is at least as high as the anchor of the request it answers.
C25_PaginationIsMonotone ==
    [][ (spc = "ph_page" /\ spc' = "ph_request") =>
            sp'.prev.height >= sp.prev.height ]_allVars

\* the frames written to the send half that carry an id
RequestFrames == {wire[i] : i \in {j \in 1 .. Len(wire) : wire[j].id # NoId}}

\* C26: request_raw parks its slot before any piece of its frame is
\* written: for every frame on the wire that carries id k, slot k of that
\* request is live, or was live until a message for it was delivered, or
\* the RequestMap is gone. A message with id k that arrives while the
\* request's frame is written and nothing was delivered to it yet is
\* handed to that request, never rejected as UnexpectedMessage.
C26_SlotParkedBeforeWrite ==
    /\ [](\A w \in RequestFrames :
            \/ [id |-> w.id, req |-> w.req] \in requests
            \/ senderUses[w.req].n > 0
            \/ MapDropped)
    /\ [][ \A w \in RequestFrames :
             (/\ frames' # frames
              /\ lastFrame' = Frame("Binary", w.id, lastFrame'.kind)
              /\ senderUses[w.req].n = 0
              /\ ~MapDropped) =>
                 /\ taskError'.tag # "UnexpectedMessage"
                 /\ senderUses'[w.req].n = 1 ]_vars

\* the response to a request was delivered while the request was still
\* writing its frame
C26_Witness ==
    \E c \in Clients :
        /\ pc[c] = "flushing"
        /\ call[c].api = "raw"
        /\ mailbox[c] # NoMsg
        /\ senderUses[call[c].req].n = 1
        /\ task = "running"

\* the last call of caller c was a request_raw that failed after it had
\* taken its id: the body did not encode, or the write to the send half
\* returned a transport error
FailedRequest(c) ==
    /\ pc[c] = "idle"
    /\ call[c].api = "raw"
    /\ result[c].tag \in {"Streamable", "Transport"}
    /\ result[c].msg = NoMsg

\* C27 as stated: the slot of a request_raw that failed after taking its id
\* stays in the RequestMap until the RequestMap is torn down.
C27_FailedRequestKeepsSlot ==
    \A c \in Clients :
        FailedRequest(c) =>
            \/ [id |-> call[c].id, req |-> call[c].req] \in requests
            \/ MapDropped

\* C27, with the other way a slot leaves the map: request_raw removes
\* nothing from the RequestMap when it fails after taking its id, and a
\* body that does not encode leaves the new slot parked. The slot stays live,
\* and its id is given to no other request, until the inbound task takes it
\* out for a received message that carries this id or the RequestMap is
\* torn down.
C27_FailedRequestLeavesSlot ==
    [][ \A c \in Clients :
          LET slot == [id |-> call[c].id, req |-> call[c].req]
          IN  /\ (~FailedRequest(c) /\ FailedRequest(c)') =>
                    /\ requests \subseteq requests'
                    /\ pc[c] = "idle" =>
                         [id |-> call'[c].id, req |-> call'[c].req] \in requests'
              /\ (FailedRequest(c) /\ slot \in requests /\ slot \notin requests') =>
                    \/ MapDropped'
                    \/ /\ frames' # frames
                       /\ lastFrame' = Frame("Binary", slot.id, lastFrame'.kind)
              /\ (FailedRequest(c) /\ slot \in requests /\ calls' # calls) =>
                    \A d \in Clients :
                        call'[d].req = calls' => call'[d].id # slot.id ]_vars

\* a request failed at the write, its slot is still parked, and a request
\* that another caller made afterwards was given the other id
C27_Witness ==
    \E c, d \in Clients :
        /\ FailedRequest(c)
        /\ result[c].tag = "Transport"
        /\ [id |-> call[c].id, req |-> call[c].req] \in requests
        /\ call[d].req > call[c].req
        /\ call[d].api = "raw"
        /\ call[d].id # call[c].id

\* C28: a subscription response without coin states goes by
\* incremental_sync, which sync_coin_ids and sync_puzzle_hashes call with
\* coin states only: the task is back in its loop at once, with no
\* transaction opened, no row written and no event sent. found_coins of
\* sync_puzzle_hashes starts false, becomes true exactly with a page that
\* carries coin states, and is what the call returns into derive_more: true
\* if and only if a page of the chunk carried a coin state.
C28_EmptyResponseSkipsSync ==
    [][ /\ (spc = "coins_wait" /\ spc' # spc /\ sres'.status # "Err"
             /\ syncLog'.coinResponses = syncLog.coinResponses) =>
               /\ spc' = "coin_ids"
               /\ << db', tx', progress', syncLog'.sends >>
                    = << db, NoTx, progress, syncLog.sends >>
        /\ (spc \in {"coins_wait", "ph_wait"} /\ spc' = "is_begin") =>
               isf'.coin_states # << >>
        /\ (spc = "ph_wait" /\ spc' # spc /\ sres'.status # "Err") =>
               /\ sp'.found_coins
                    = (sp.found_coins \/ sp'.data.coin_states # << >>)
               /\ sp'.data.coin_states = << >> =>
                    /\ spc' = "ph_page"
                    /\ << db', tx', progress', syncLog'.sends >>
                         = << db, NoTx, progress, syncLog.sends >>
               /\ sp'.data.coin_states # << >> => spc' = "is_begin"
        /\ (spc \in {"known", "fr_send"} /\ spc' = "ph_request") =>
               ~sp'.found_coins
        /\ (spc # "ph_wait" /\ spc' \notin {"ph_request", "idle"}
             /\ sres'.n = sres.n) =>
               sp'.found_coins = sp.found_coins
        /\ (spc = "ph_page" /\ spc' \in {"known", "frontier"}) =>
               /\ sw'.derive_more = (sw.derive_more \/ sp.found_coins)
               /\ (sp.caller = "frontier" \/ sw.chunk = 0) =>
                    (sp.found_coins <=> syncLog.roundFound) ]_allVars

\* sync_puzzle_hashes is about to return true: a page brought coin states
\* and the last page, which brought none, went by incremental_sync
C28_Witness ==
    /\ spc = "ph_page"
    /\ sp.data.is_finished
    /\ sp.data.coin_states = << >>
    /\ sp.found_coins
    /\ syncLog.unfinished > 0
    /\ tx = NoTx

\* the texts of req at the positions where the lookup reported "unlocked"
RECURSIVE KeptTexts(_, _)
KeptTexts(req, reports) ==
    IF req = << >> \/ reports = << >> THEN << >>
    ELSE (IF Head(reports) = "unlocked" THEN << Head(req) >> ELSE << >>)
         \o KeptTexts(Tail(req), Tail(reports))

\* C29: filter_unlocked_coins returns Ok exactly when every requested id
\* parsed and every lookup succeeded, and then with exactly the requested
\* texts whose lookup reported "not locked", in request order, duplicates
\* kept; a text that does not parse or a failed lookup ends the call with an
\* error that carries no list; each lookup reports the lock state of the
\* parsed id at that moment, and no step of the call changes the wallet.
C29_FilterKeepsUnlockedInOrder ==
    /\ [](fu.result.tag = "Ok" =>
            /\ Len(fu.reports) = Len(fu.req)
            /\ \A i \in 1 .. Len(fu.req) :
                 /\ ParseCoinId(fu.req[i]) # InvalidCoinId
                 /\ fu.reports[i] \in {"locked", "unlocked"}
            /\ fu.result.coin_ids = KeptTexts(fu.req, fu.reports))
    /\ [](fu.result.tag = "Err" => fu.result.coin_ids = << >>)
    /\ []((fu.pc = "idle" /\ fu.reports # << >>
            /\ fu.reports[Len(fu.reports)] \in {"unparsed", "failed"})
            => fu.result.tag = "Err")
    /\ [][ fu' # fu =>
            /\ << locked', db', tx' >> = << locked, db, tx >>
            /\ (Len(fu'.reports) > Len(fu.reports)
                 /\ fu'.reports[Len(fu'.reports)] \in {"locked", "unlocked"}) =>
                   (fu'.reports[Len(fu'.reports)] = "locked"
                      <=> ParseCoinId(fu.req[fu.i]) \in locked) ]_allVars

\* a call returned both spellings of the same unlocked coin, in request
\* order, and left out the locked coin requested between them
C29_Witness ==
    /\ fu.result.tag = "Ok"
    /\ fu.req = << "A1", "b2", "a1" >>
    /\ fu.result.coin_ids = << "A1", "a1" >>

====
